---- MODULE Spec2Model ----
(***************************************************************************)
(* csvValidator: the inference-and-repair engine of                        *)
(*   src/streaming_csv_parser.py  (batch path: main, analyze_csv_stats,    *)
(*                                 process_csv_streaming)                  *)
(*   src/app_streamlit.py         (interactive path: process_csv_stream,   *)
(*                                 analyze_csv_stats_stream)               *)
(*                                                                         *)
(* Text is a sequence of one-character strings.  A file is the sequence of *)
(* physical lines readline() returns for it with newline='': every line    *)
(* keeps its terminator, and only the last line may have none.             *)
(***************************************************************************)
EXTENDS Integers, Sequences, FiniteSets, TLC

\* ------------------------------------------------------------------------
\* Characters
\* ------------------------------------------------------------------------
CR == "\r"
LF == "\n"
QUOTE == "\""
TAB == "\t"
SPACE == " "
\* A lone surrogate (U+D800), which some decoders give (utf-7,
\* unicode_escape) and the utf-8 encoder of the sinks refuses.
SURROGATE == "U+D800"
\* A run of ordinary characters longer than the csv module's field limit
\* (131072), taken as one symbol
OVERSIZE == "x*131073"
\* The parser's end-of-line marker (EOL in _csv.c): not a character.
EOL == "EOL"
\* Python's None where a one-character string is expected.
NoDelim == "None"
\* Python's None where an int is expected (expected_columns=None).
NoneInt == -1
\* Python's None for an optional line: a sequence of no line, or of one.
None == <<>>
Some(x) == <<x>>

\* ------------------------------------------------------------------------
\* Sequence helpers
\* ------------------------------------------------------------------------
RECURSIVE Flatten(_)
\* ''.join(lines)
Flatten(ss) == IF ss = <<>> THEN <<>> ELSE Head(ss) \o Flatten(Tail(ss))

RECURSIVE CountChar(_, _)
\* str.count(d) for a one-character d
CountChar(s, d) ==
    IF s = <<>> THEN 0
    ELSE (IF Head(s) = d THEN 1 ELSE 0) + CountChar(Tail(s), d)

RECURSIVE SumCount(_, _)
\* sum(line.count(d) for line in lines)
SumCount(ls, d) ==
    IF ls = <<>> THEN 0 ELSE CountChar(Head(ls), d) + SumCount(Tail(ls), d)

RECURSIVE rstrip(_)
\* str.rstrip('\r\n')
rstrip(s) ==
    IF s # <<>> /\ s[Len(s)] \in {CR, LF}
    THEN rstrip(SubSeq(s, 1, Len(s) - 1))
    ELSE s

RECURSIVE lstrip(_)
\* str.lstrip('\r\n')
lstrip(s) ==
    IF s # <<>> /\ Head(s) \in {CR, LF} THEN lstrip(Tail(s)) ELSE s

\* The characters str.strip() removes, among those of the model.
Whitespace == {SPACE, TAB, CR, LF}

\* content.strip() == ""
IsBlank(s) == \A i \in 1..Len(s) : s[i] \in Whitespace

\* The position of the first "\n" of the text, 0 when it has none.
FirstLF(text) ==
    IF \E i \in 1..Len(text) : text[i] = LF
    THEN CHOOSE i \in 1..Len(text) :
            text[i] = LF /\ \A j \in 1..(i - 1) : text[j] # LF
    ELSE 0

RECURSIVE StringIO(_)
\* The lines io.StringIO(text) iterates over: its default newline='\n' ends
\* a line at "\n" only.  k is the position of the text's first "\n".
SplitLF(text, k) ==
    IF text = <<>> THEN <<>>
    ELSE IF k = 0 THEN <<text>>
    ELSE <<SubSeq(text, 1, k)>> \o StringIO(SubSeq(text, k + 1, Len(text)))

StringIO(text) == SplitLF(text, FirstLF(text))

\* ------------------------------------------------------------------------
\* csv.reader (CPython Modules/_csv.c) for the dialect both files use:
\* delimiter d, quotechar '"', doublequote, no escapechar, not strict,
\* QUOTE_MINIMAL.
\* ------------------------------------------------------------------------
parse_reset == [state |-> "START_RECORD", fields |-> <<>>, field |-> <<>>,
                err |-> FALSE]

parse_save_field(p) == [p EXCEPT !.fields = Append(@, p.field), !.field = <<>>]

\* parse_add_char: "field larger than field limit" once the field holds
\* field_limit characters
parse_add_char(p, c) ==
    IF c = OVERSIZE THEN [p EXCEPT !.err = TRUE]
    ELSE [p EXCEPT !.field = Append(@, c)]

\* case START_FIELD of parse_process_char
StartField(p, c, d) ==
    IF c \in {LF, CR, EOL}
    THEN [parse_save_field(p) EXCEPT
             !.state = IF c = EOL THEN "START_RECORD" ELSE "EAT_CRNL"]
    ELSE IF c = QUOTE THEN [p EXCEPT !.state = "IN_QUOTED_FIELD"]
    ELSE IF c = d THEN [parse_save_field(p) EXCEPT !.state = "START_FIELD"]
    ELSE [parse_add_char(p, c) EXCEPT !.state = "IN_FIELD"]

parse_process_char(p, c, d) ==
    IF p.err THEN p
    ELSE CASE p.state = "START_RECORD" ->
                IF c = EOL THEN p
                ELSE IF c \in {LF, CR} THEN [p EXCEPT !.state = "EAT_CRNL"]
                ELSE StartField(p, c, d)
           [] p.state = "START_FIELD" -> StartField(p, c, d)
           [] p.state = "IN_FIELD" ->
                IF c \in {LF, CR, EOL}
                THEN [parse_save_field(p) EXCEPT
                         !.state = IF c = EOL THEN "START_RECORD"
                                   ELSE "EAT_CRNL"]
                ELSE IF c = d
                     THEN [parse_save_field(p) EXCEPT !.state = "START_FIELD"]
                     ELSE parse_add_char(p, c)
           [] p.state = "IN_QUOTED_FIELD" ->
                IF c = EOL THEN p
                ELSE IF c = QUOTE
                     THEN [p EXCEPT !.state = "QUOTE_IN_QUOTED_FIELD"]
                     ELSE parse_add_char(p, c)
           [] p.state = "QUOTE_IN_QUOTED_FIELD" ->
                IF c = QUOTE
                THEN [parse_add_char(p, c) EXCEPT !.state = "IN_QUOTED_FIELD"]
                ELSE IF c = d
                     THEN [parse_save_field(p) EXCEPT !.state = "START_FIELD"]
                ELSE IF c \in {LF, CR, EOL}
                     THEN [parse_save_field(p) EXCEPT
                              !.state = IF c = EOL THEN "START_RECORD"
                                        ELSE "EAT_CRNL"]
                ELSE [parse_add_char(p, c) EXCEPT !.state = "IN_FIELD"]
           [] p.state = "EAT_CRNL" ->
                IF c \in {LF, CR} THEN p
                ELSE IF c = EOL THEN [p EXCEPT !.state = "START_RECORD"]
                ELSE [p EXCEPT !.err = TRUE]

RECURSIVE ProcessLine(_, _, _)
\* Reader_iternext's inner loop: every character of the line, then EOL;
\* it ends at the first character that raises csv.Error.
ProcessLine(p, line, d) ==
    IF p.err THEN p
    ELSE IF line = <<>> THEN parse_process_char(p, EOL, d)
    ELSE ProcessLine(parse_process_char(p, Head(line), d), Tail(line), d)

RECURSIVE IterLoop(_, _, _, _)
\* Reader_iternext's do-while, after a line was processed into q: lines[i]
\* is the next line the input iterator gives.  The result names the record,
\* or StopIteration, or csv.Error, and the index of the first line not
\* consumed.
AfterLine(q, lines, i, d) ==
    IF q.err THEN [kind |-> "error", row |-> <<>>, next |-> i]
    ELSE IF q.state = "START_RECORD"
         THEN [kind |-> "row", row |-> q.fields, next |-> i]
         ELSE IterLoop(q, lines, i, d)

\* Reader_iternext's do-while before lines[i]; at the end of the input a
\* field begun, or an open quote, still gives a record.
IterLoop(p, lines, i, d) ==
    IF i > Len(lines)
    THEN IF Len(p.field) # 0 \/ p.state = "IN_QUOTED_FIELD"
         THEN [kind |-> "row", row |-> parse_save_field(p).fields, next |-> i]
         ELSE [kind |-> "stop", row |-> <<>>, next |-> i]
    ELSE AfterLine(ProcessLine(p, lines[i], d), lines, i + 1, d)

\* next(reader) with the input iterator standing before lines[i]
Reader_iternext(lines, i, d) == IterLoop(parse_reset, lines, i, d)

\* One more field count in front of the rest's.
Prepend(n, rest) == [err |-> rest.err, lengths |-> <<n>> \o rest.lengths]

RECURSIVE ReadAll(_, _, _)
\* [len(row) for row in reader], r being the reader's next result
ReadFrom(r, lines, d) ==
    IF r.kind = "stop" THEN [err |-> FALSE, lengths |-> <<>>]
    ELSE IF r.kind = "error" THEN [err |-> TRUE, lengths |-> <<>>]
    ELSE Prepend(Len(r.row), ReadAll(lines, r.next, d))

\* [len(row) for row in reader]: the field counts, and whether csv.Error
\* was raised on the way.
ReadAll(lines, i, d) == ReadFrom(Reader_iternext(lines, i, d), lines, d)

\* What _parse_row makes of next(reader)'s result.
RowOrNone(r) ==
    IF r.kind = "error" THEN [ok |-> FALSE, row |-> <<>>]
    ELSE [ok |-> TRUE, row |-> r.row]

\* _parse_row(text): the first record of the text; [] when there is none,
\* None (ok = FALSE) on any exception.
_parse_row(text, d) == RowOrNone(Reader_iternext(StringIO(text), 1, d))

\* ------------------------------------------------------------------------
\* csv.writer with quoting=csv.QUOTE_ALL: every field quoted, a quote in a
\* field doubled, fields joined by the delimiter, lineterminator "\r\n".
\* ------------------------------------------------------------------------
\* A variant of QuoteChars that leaves a quote in a field as it is.
QuoteChars_Plain(f) == f

RECURSIVE QuoteChars(_)
QuoteChars(f) ==
    IF f = <<>> THEN <<>>
    ELSE (IF Head(f) = QUOTE THEN <<QUOTE, QUOTE>> ELSE <<Head(f)>>)
         \o QuoteChars(Tail(f))

QuoteField(f) == <<QUOTE>> \o QuoteChars(f) \o <<QUOTE>>

RECURSIVE JoinFields(_, _)
JoinFields(row, delim) ==
    IF row = <<>> THEN <<>>
    ELSE IF Len(row) = 1 THEN QuoteField(row[1])
    ELSE QuoteField(Head(row)) \o <<delim>> \o JoinFields(Tail(row), delim)

writerow(row, delim) == JoinFields(row, delim) \o <<CR, LF>>

\* ------------------------------------------------------------------------
\* Statistics shared by the two analyzers
\* ------------------------------------------------------------------------
\* max_lines=10000 of both analyzers' calls
MaxLinesStats == 10000

base_candidates == <<",", ";", TAB, "|">>

InSeq(x, s) == \E i \in 1..Len(s) : s[i] = x

RECURSIVE AppendNew(_, _)
\* for d in ds: if d not in candidates: candidates.append(d)
AppendNew(candidates, ds) ==
    IF ds = <<>> THEN candidates
    ELSE AppendNew(IF InSeq(Head(ds), candidates) THEN candidates
                   ELSE Append(candidates, Head(ds)), Tail(ds))

\* The ordered candidate list: the caller's delimiter, the sniffed one, the
\* base set.  sniffed is what csv.Sniffer().sniff(sample).delimiter gave
\* (NoDelim when it raised).
Candidates(provided, sniffed) ==
    AppendNew(AppendNew(IF provided # NoDelim THEN <<provided>> ELSE <<>>,
                        IF sniffed # NoDelim THEN <<sniffed>> ELSE <<>>),
              base_candidates)

\* The lines read for the sample: at most max_lines, fewer at EOF.
Sample(file) ==
    SubSeq(file, 1, IF Len(file) < MaxLinesStats THEN Len(file)
                    ELSE MaxLinesStats)

\* csv.reader(io.StringIO(''.join(lines)), delimiter=d): field counts
ParseSample(lines, d) == ReadAll(StringIO(Flatten(lines)), 1, d)

CountOf(s, x) == Cardinality({i \in 1..Len(s) : s[i] = x})

\* max(Counter(data).items(), key=lambda kv: (kv[1], kv[0])): the most
\* frequent value, the larger one on a tie.
ModalLargest(data) ==
    CHOOSE x \in {data[i] : i \in 1..Len(data)} :
        \A y \in {data[i] : i \in 1..Len(data)} :
            \/ CountOf(data, y) < CountOf(data, x)
            \/ CountOf(data, y) = CountOf(data, x) /\ y <= x

FirstIndex(s, x) == CHOOSE i \in 1..Len(s) :
                        s[i] = x /\ \A j \in 1..(i - 1) : s[j] # x

\* max(cnt, key=cnt.get): the most frequent value, on a tie the one the
\* Counter met first.
ModalFirst(data) ==
    CHOOSE x \in {data[i] : i \in 1..Len(data)} :
        \A y \in {data[i] : i \in 1..Len(data)} :
            \/ CountOf(data, y) < CountOf(data, x)
            \/ CountOf(data, y) = CountOf(data, x)
               /\ FirstIndex(data, x) <= FirstIndex(data, y)

\* A share m/n is kept as the pair <<m, n>>; 1.0 is <<1, 1>>.  For the
\* sample sizes of the analyzers the float comparisons agree with these.
RatGT(a, b) == a[1] * b[2] > b[1] * a[2]
RatEQ(a, b) == a[1] * b[2] = b[1] * a[2]
RatGE(a, b) == a[1] * b[2] >= b[1] * a[2]

\* header_cols, modal_cols, modal_count, modal_share and total_rows for
\* the delimiter d, from the header's field count, the data rows' field
\* counts and their mode.
StatsWith(d, header_cols, data, modal) ==
    [delim |-> d, header_cols |-> header_cols, modal_cols |-> modal,
     modal_count |-> IF data = <<>> THEN 0 ELSE CountOf(data, modal),
     modal_share |-> IF data = <<>> THEN <<1, 1>>
                     ELSE <<CountOf(data, modal), Len(data)>>,
     total_rows |-> Len(data) + 1]

\* The statistics of a non-empty list of field counts; the mode is taken
\* with key (count, value): the larger value on a tie.
StatsLargest(lengths, d) ==
    StatsWith(d, lengths[1], Tail(lengths),
              IF Tail(lengths) = <<>> THEN lengths[1]
              ELSE ModalLargest(Tail(lengths)))

\* The same with max(cnt, key=cnt.get): the value met first on a tie.
StatsFirst(lengths, d) ==
    StatsWith(d, lengths[1], Tail(lengths),
              IF Tail(lengths) = <<>> THEN lengths[1]
              ELSE ModalFirst(Tail(lengths)))

\* One candidate's entry in front of the others': none when it does not
\* parse.
WithCandidate(r, d, rest) ==
    IF r.err \/ r.lengths = <<>> THEN rest
    ELSE <<StatsLargest(r.lengths, d)>> \o rest

RECURSIVE CandidateStats(_, _)
\* The candidates' loop: one entry per candidate that parses.
CandidateStats(lines, cands) ==
    IF cands = <<>> THEN <<>>
    ELSE WithCandidate(ParseSample(lines, Head(cands)), Head(cands),
                       CandidateStats(lines, Tail(cands)))

\* A variant of MaxFreq that takes the first candidate.
MaxFreq_First(lines, cands) == cands[1]

\* max(freq_counts.items(), key=lambda kv: kv[1])[0]: the candidate with
\* the most occurrences over the sample lines, the first one on a tie.
\* (Each mean is the total divided by the same len(lines).)
MaxFreq(lines, cands) ==
    cands[CHOOSE i \in 1..Len(cands) :
             /\ \A j \in 1..Len(cands) :
                   SumCount(lines, cands[j]) <= SumCount(lines, cands[i])
             /\ \A j \in 1..(i - 1) :
                   SumCount(lines, cands[j]) < SumCount(lines, cands[i])]

\* The first element of rs that no element exceeds under GT.
FirstMax(rs, GT(_, _)) ==
    rs[CHOOSE i \in 1..Len(rs) :
          /\ \A j \in 1..Len(rs) : ~GT(rs[j], rs[i])
          /\ \A j \in 1..(i - 1) : GT(rs[i], rs[j])]

IntMax(S) == CHOOSE x \in S : \A y \in S : y <= x

RECURSIVE SplitCounts(_, _)
\* [len(line.split(best_d)) for line in lines]
SplitCounts(lines, d) ==
    IF lines = <<>> THEN <<>>
    ELSE <<CountChar(Head(lines), d) + 1>> \o SplitCounts(Tail(lines), d)

\* A variant of MoreThanOneCol that drops no candidate.
MoreThanOneCol_All(rs) == rs

RECURSIVE MoreThanOneCol(_)
\* [r for r in results if r[1] > 1]
MoreThanOneCol(rs) ==
    IF rs = <<>> THEN <<>>
    ELSE (IF Head(rs).modal_cols > 1 THEN <<Head(rs)>> ELSE <<>>)
         \o MoreThanOneCol(Tail(rs))

Raised(what) == [kind |-> "error", error |-> what]
Returned(st, how) == [kind |-> "ok", path |-> how, delim |-> st.delim,
                      header_cols |-> st.header_cols,
                      modal_cols |-> st.modal_cols,
                      total_rows |-> st.total_rows,
                      modal_share |-> st.modal_share]

\* ------------------------------------------------------------------------
\* streaming_csv_parser.analyze_csv_stats
\* ------------------------------------------------------------------------
\* A variant of BatchKeyGT with the modal row count ahead of the modal
\* column count.
BatchKeyGT_CountFirst(a, b) ==
    \/ RatGT(a.modal_share, b.modal_share)
    \/ /\ RatEQ(a.modal_share, b.modal_share)
       /\ \/ a.modal_count > b.modal_count
          \/ a.modal_count = b.modal_count /\ a.modal_cols > b.modal_cols

\* sort key (modal_share, modal_cols, modal_count), reverse=True
BatchKeyGT(a, b) ==
    \/ RatGT(a.modal_share, b.modal_share)
    \/ /\ RatEQ(a.modal_share, b.modal_share)
       /\ \/ a.modal_cols > b.modal_cols
          \/ a.modal_cols = b.modal_cols /\ a.modal_count > b.modal_count

\* A variant of Filtered that keeps the candidates of one column.
Filtered_Nothing(results) == results

\* lines 197-202: with a candidate of more than one column, those of one
\* column are ignored.
Filtered(results) ==
    IF IntMax({results[i].modal_cols : i \in 1..Len(results)}) > 1
    THEN MoreThanOneCol(results)
    ELSE results

\* lines 166-187: no candidate parsed; again is the second parse with the
\* most frequent candidate, a count of split() parts when it raises too.
BatchNoResults(lines, best_d, again) ==
    IF again.err
    THEN Returned(StatsLargest(SplitCounts(lines, best_d), best_d),
                  "no_results")
    ELSE IF again.lengths = <<>>
         THEN Returned(StatsLargest(<<1>>, best_d), "no_results")
         ELSE Returned(StatsLargest(again.lengths, best_d), "no_results")

\* lines 211-226: the statistics recomputed for the most frequent
\* candidate; an exception here leaves as ValueError (line 231).
BatchFrequency(best_d, again) ==
    IF again.err THEN Raised("ValueError")
    ELSE IF again.lengths = <<>>
         THEN Returned([delim |-> best_d, header_cols |-> 1, modal_cols |-> 1,
                        modal_share |-> <<1, 1>>, total_rows |-> 0],
                       "frequency")
         ELSE Returned(StatsLargest(again.lengths, best_d), "frequency")

\* lines 205-229, best being filtered[0] after the sort
BatchBest(lines, best, best_d) ==
    IF best.modal_cols = 1
    THEN BatchFrequency(best_d, ParseSample(lines, best_d))
    ELSE Returned(best, "ranked")

BatchDecide(lines, cands, results) ==
    IF lines = <<>> THEN Raised("ValueError")
    ELSE IF results = <<>>
    THEN BatchNoResults(lines, MaxFreq(lines, cands),
                        ParseSample(lines, MaxFreq(lines, cands)))
    ELSE BatchBest(lines, FirstMax(Filtered(results), BatchKeyGT),
                   MaxFreq(lines, cands))

BatchAnalyze(lines, cands) ==
    BatchDecide(lines, cands, CandidateStats(lines, cands))

analyze_csv_stats(file, provided, sniffed) ==
    BatchAnalyze(Sample(file), Candidates(provided, sniffed))

\* ------------------------------------------------------------------------
\* app_streamlit.analyze_csv_stats_stream
\* ------------------------------------------------------------------------
\* rank = (score, modal_count, modal_cols); a later candidate replaces the
\* best only when its rank is strictly greater.
StreamRankGT(a, b) ==
    \/ RatGT(a.modal_share, b.modal_share)
    \/ /\ RatEQ(a.modal_share, b.modal_share)
       /\ \/ a.modal_count > b.modal_count
          \/ a.modal_count = b.modal_count /\ a.modal_cols > b.modal_cols

\* lines 220-234: best is None; again is the parse with the caller's
\* delimiter or ','; its csv.Error is not caught.
StreamNoResults(d, again) ==
    IF again.err THEN Raised("csv.Error")
    ELSE IF again.lengths = <<>> THEN Raised("ValueError")
    ELSE Returned(StatsFirst(again.lengths, d), "no_results")

\* A variant of StreamFrequency that changes the delimiter and keeps the
\* ranked candidate's numbers.
StreamFrequency_KeepNumbers(best, best_d, again) ==
    Returned([best EXCEPT !.delim = best_d], "frequency")

\* lines 239-252: the statistics recomputed for the most frequent
\* candidate; kept as they were when that parse gives no row.
StreamFrequency(best, best_d, again) ==
    IF again.err THEN Raised("csv.Error")
    ELSE IF again.lengths = <<>> THEN Returned(best, "ranked")
    ELSE Returned(StatsFirst(again.lengths, best_d), "frequency")

\* lines 236-253
StreamBest(lines, best, best_d) ==
    IF best.modal_cols = 1
    THEN StreamFrequency(best, best_d, ParseSample(lines, best_d))
    ELSE Returned(best, "ranked")

StreamDecide(lines, cands, results, d) ==
    IF lines = <<>> THEN Raised("ValueError")
    ELSE IF results = <<>>
    THEN StreamNoResults(d, ParseSample(lines, d))
    ELSE StreamBest(lines, FirstMax(results, StreamRankGT),
                    MaxFreq(lines, cands))

StreamAnalyze(lines, cands, provided) ==
    StreamDecide(lines, cands, CandidateStats(lines, cands),
                 IF provided # NoDelim THEN provided ELSE ",")

analyze_csv_stats_stream(file, provided, sniffed) ==
    StreamAnalyze(Sample(file), Candidates(provided, sniffed), provided)

\* ------------------------------------------------------------------------
\* Inputs of the model
\* ------------------------------------------------------------------------
\* The most data lines a file of the model has after its header.
MaxDataLines == 3

\* Contents of data lines (without terminator): a full row, short rows,
\* the two halves of a record wrapped inside a quoted field, an empty and
\* a blank line.
Contents ==
    { <<"1", "|", "2", "|", "3">>,
      <<"4", "|", "5">>,
      <<"6">>,
      <<"1", "|", QUOTE, "2">>,
      <<"3", QUOTE, "|", "4">>,
      <<>>,
      <<SPACE>> }

\* Contents of the header's physical lines: one line, or a quoted field
\* name that holds a line break.
HeaderChoices ==
    { << <<"a", "|", "b", "|", "c">> >>,
      << <<QUOTE, "a">>, <<"b", QUOTE, "|", "c", "|", "d">> >> }

\* How a file ends its lines, and whether its last line has a terminator.
Styles == { [term |-> <<LF>>, last |-> TRUE],
            [term |-> <<CR, LF>>, last |-> TRUE],
            [term |-> <<LF>>, last |-> FALSE] }

RECURSIVE SeqsOf(_, _)
\* All sequences of exactly n elements of S
SeqsOf(S, n) ==
    IF n = 0 THEN {<<>>}
    ELSE { Append(q, x) : q \in SeqsOf(S, n - 1), x \in S }

ContentSeqs == UNION { SeqsOf(Contents, n) : n \in 0..MaxDataLines }

\* The physical lines readline() gives for the contents cs in style st.
FileOf(cs, st) ==
    [i \in 1..Len(cs) |->
        IF i = Len(cs) /\ ~st.last THEN cs[i] ELSE cs[i] \o st.term]

\* The files of the model: the empty file, and a header with data lines.
\* (A last line without terminator is not empty.)
Files ==
    {<<>>} \cup
    { FileOf(h \o cs, st) : h \in HeaderChoices,
        <<cs, st>> \in { x \in ContentSeqs \X Styles :
                            x[2].last \/ x[1] = <<>>
                                      \/ x[1][Len(x[1])] # <<>> } }

\* What the caller passes as delimiter and csv.Sniffer gives for the
\* sample; NoDelim: no delimiter passed, the sniffer raised.
AnalyzerInputs == { <<NoDelim, NoDelim>>, <<"|", NoDelim>>, <<NoDelim, ";">> }
\* delimiter and expected_columns of a direct call of process_csv_streaming
ArgDelims == {"|"}
ArgExpected == {NoneInt, 2}
\* export_delimiter (default '~')
ExportDelims == {"~"}

VARIABLES
    entry,              \* the function called: "process_csv_stream", "main"
                        \* or "process_csv_streaming"
    input,              \* the decoded file, as physical lines
    provided_delimiter, \* input_delimiter / --delimiter
    sniffed,            \* csv.Sniffer's answer for the sample
    export_delimiter,
    progress_callback,  \* whether the caller supplied a progress callback
    detected,           \* what opening, reading and chardet do for the file
    encoding,           \* encoding / enc: the encoding the file is read with
    pc,                 \* where the run stands
    stats,              \* what the analyzer returned
    delimiter,          \* det_delim / delim / delimiter: the input delimiter
    expected_arg,       \* main's expected_columns, process_csv_streaming's
                        \* parameter of that name
    expected_columns,   \* expected_columns / expected_columns_local
    header,             \* the header row
    pos,                \* lines of the input the stream has given out
    buffered_line,
    phys_line_no,
    valid_count,
    bad_count,
    total_count,        \* process_csv_stream only
    clean,              \* Clean sink: the texts writerow wrote
    bad,                \* Bad sink: the rows bad_writer wrote
    bad_raw,            \* BadRaw sink: the texts written
    log,                \* warnings and errors logged
    stdout,             \* main's summary line
    progress,           \* the progress callback's calls, by their arguments
    error,              \* the exception the run ended with
    outcomes,           \* history: one entry per classification
    hdr_lines           \* history: physical lines the header read consumed

vars == <<entry, input, provided_delimiter, sniffed, export_delimiter,
          progress_callback, detected, encoding, pc,
          stats, delimiter, expected_arg, expected_columns, header, pos,
          buffered_line, phys_line_no, valid_count, bad_count, total_count,
          clean, bad, bad_raw, log, stdout, progress, error, outcomes,
          hdr_lines>>

\* The cadence of the progress callback: 5000 classified lines in the code,
\* brought down to the length of the inputs explored.
ProgressEvery == 2

\* Names of encodings, as chardet spells them
UTF8 == <<"u", "t", "f", "-", "8">>
ascii == <<"a", "s", "c", "i", "i">>
NoEncoding == <<>>

\* The caller passed the encoding: nothing is opened or guessed.
NotDetected == [opens |-> TRUE, reads |-> TRUE, kind |-> "bytes",
                guess |-> NoEncoding]

params == <<entry, input, provided_delimiter, sniffed, export_delimiter,
            progress_callback, detected, encoding>>
sinks == <<clean, bad, bad_raw>>
counters == <<valid_count, bad_count, total_count>>
loopvars == <<pos, buffered_line, phys_line_no>>

NoStats == [kind |-> "none"]
NoError == "none"

\* bad_header, with the spec's column names
BadHeader == [line_number |-> "line_number", error_kind |-> "error_kind",
              description |-> "description",
              original_content |-> "original_content"]

\* Everything but the call's parameters, as it is when a function is entered.
Fresh ==
    /\ stats = NoStats
    /\ expected_columns = NoneInt
    /\ header = <<>>
    /\ pos = 0
    /\ buffered_line = None
    /\ phys_line_no = 0
    /\ valid_count = 0 /\ bad_count = 0 /\ total_count = 0
    /\ clean = <<>> /\ bad = <<>> /\ bad_raw = <<>>
    /\ log = <<>> /\ stdout = <<>> /\ progress = <<>>
    /\ error = NoError
    /\ outcomes = <<>>
    /\ hdr_lines = 0

Init ==
    /\ input \in Files
    /\ export_delimiter \in ExportDelims
    /\ progress_callback = FALSE
    /\ detected = NotDetected /\ encoding = UTF8
    /\ \/ /\ entry \in {"process_csv_stream", "main"}
          /\ \E a \in AnalyzerInputs :
                provided_delimiter = a[1] /\ sniffed = a[2]
          /\ delimiter = NoDelim
          /\ expected_arg = NoneInt
          /\ pc = "analyze"
       \/ /\ entry = "process_csv_streaming"
          /\ provided_delimiter = NoDelim
          /\ sniffed = NoDelim
          /\ delimiter \in ArgDelims
          /\ expected_arg \in ArgExpected
          /\ pc = "header"
    /\ Fresh

\* ------------------------------------------------------------------------
\* app_streamlit.process_csv_stream, up to the loop
\* ------------------------------------------------------------------------
\* lines 270-272: the statistics pass; its exception ends the run.
AnalyzeStream ==
    /\ pc = "analyze" /\ entry = "process_csv_stream"
    /\ LET r == analyze_csv_stats_stream(input, provided_delimiter, sniffed) IN
       IF r.kind = "error"
       THEN /\ error' = r.error /\ pc' = "failed" /\ stats' = stats
       ELSE /\ stats' = r /\ pc' = "strict" /\ error' = error
    /\ UNCHANGED <<params, delimiter, expected_arg, expected_columns, header,
                   loopvars, counters, sinks, log, stdout, progress, outcomes,
                   hdr_lines>>

\* A variant of StructureMismatch that tolerates a mismatch the way main's
\* 90% rule does.
StructureMismatch_Tolerant(st) ==
    st.header_cols # st.modal_cols /\ ~RatGE(st.modal_share, <<9, 10>>)

\* line 273: if header_cols_stat != modal_cols_stat
StructureMismatch(st) == st.header_cols # st.modal_cols

\* lines 273-292: the strict policy, then seek(0) and the Bad header.
StrictCheck ==
    /\ pc = "strict"
    /\ IF StructureMismatch(stats)
       THEN /\ error' = "ValueError" /\ pc' = "failed"
            /\ UNCHANGED <<delimiter, pos, bad>>
       ELSE /\ pos' = 0
            /\ bad' = Append(bad, BadHeader)
            /\ delimiter' = stats.delim
            /\ pc' = "header"
            /\ error' = error
    /\ UNCHANGED <<params, stats, expected_arg, expected_columns, header,
                   buffered_line, phys_line_no, counters, clean, bad_raw,
                   log, stdout, progress, outcomes, hdr_lines>>

\* A variant of HeaderWritten that leaves the header out of Clean.
HeaderWritten_Never(hdr) == <<>>

\* clean_writer.writerow(header) / writer.writerow(header): what the header
\* adds to the Clean sink.
HeaderWritten(hdr) == <<writerow(hdr, export_delimiter)>>

\* lines 294-325: the header; StopIteration returns the empty buffers.
ReadHeaderStream ==
    /\ pc = "header" /\ entry = "process_csv_stream"
    /\ LET r == Reader_iternext(input, pos + 1, delimiter) IN
       IF r.kind = "row"
       THEN /\ header' = r.row
            /\ expected_columns' = Len(r.row)
            /\ clean' = clean \o HeaderWritten(r.row)
            /\ total_count' = total_count + 1
            /\ pos' = r.next - 1
            /\ hdr_lines' = r.next - 1
            /\ phys_line_no' = 2
            /\ buffered_line' = None
            /\ pc' = "loop"
            /\ error' = error
       ELSE /\ pc' = IF r.kind = "stop" THEN "done" ELSE "failed"
            /\ error' = IF r.kind = "stop" THEN error ELSE "csv.Error"
            /\ UNCHANGED <<header, expected_columns, clean, total_count, pos,
                           hdr_lines, phys_line_no, buffered_line>>
    /\ UNCHANGED <<params, stats, delimiter, expected_arg, valid_count,
                   bad_count, bad, bad_raw, log, stdout, progress, outcomes>>

\* ------------------------------------------------------------------------
\* streaming_csv_parser.main and process_csv_streaming, up to the loop
\* ------------------------------------------------------------------------
\* main, lines 406-412: the statistics pass; its ValueError is logged and
\* raised again.
AnalyzeBatch ==
    /\ pc = "analyze" /\ entry = "main"
    /\ LET r == analyze_csv_stats(input, provided_delimiter, sniffed) IN
       IF r.kind = "error"
       THEN /\ error' = r.error /\ pc' = "failed" /\ stats' = stats
            /\ log' = Append(log, "error")
       ELSE /\ stats' = r /\ pc' = "resolve" /\ error' = error /\ log' = log
    /\ UNCHANGED <<params, delimiter, expected_arg, expected_columns, header,
                   loopvars, counters, sinks, stdout, progress, outcomes, hdr_lines>>

\* A variant of NinetyPercent with the boundary excluded.
NinetyPercent_Strict(share) == RatGT(share, <<9, 10>>)

\* modal_share >= 0.9
NinetyPercent(share) == RatGE(share, <<9, 10>>)

\* main, line 421
ExpectedColumns(st) ==
    IF NinetyPercent(st.modal_share) THEN st.modal_cols ELSE st.header_cols

\* A variant of WarnsFallback that warns on every fallback.
WarnsFallback_Always(st) == ~NinetyPercent(st.modal_share)

\* main, line 422
WarnsFallback(st) ==
    st.header_cols # st.modal_cols /\ ~NinetyPercent(st.modal_share)

\* main, lines 420-430: the 90% rule and the call of process_csv_streaming
Resolve90 ==
    /\ pc = "resolve"
    /\ expected_arg' = ExpectedColumns(stats)
    /\ log' = IF WarnsFallback(stats) THEN Append(log, "warning_fallback")
              ELSE log
    /\ delimiter' = stats.delim
    /\ pc' = "header"
    /\ UNCHANGED <<params, stats, expected_columns, header, loopvars,
                   counters, sinks, stdout, progress, error, outcomes, hdr_lines>>

\* The text can be written to a sink: the sinks of process_csv_streaming
\* are files opened with encoding='utf-8', whose write raises
\* UnicodeEncodeError on a lone surrogate; those of process_csv_stream are
\* StringIO buffers, which take any text.
Writable(text) ==
    entry = "process_csv_stream" \/ \A i \in 1..Len(text) : text[i] # SURROGATE

\* process_csv_streaming, lines 239-289: the sinks are opened, the Bad
\* header is written, the header is read.  Without a header the function
\* logs an error and returns None, which main cannot unpack.
ReadHeaderBatch ==
    /\ pc = "header" /\ entry \in {"main", "process_csv_streaming"}
    /\ bad' = Append(bad, BadHeader)
    /\ LET r == Reader_iternext(input, pos + 1, delimiter) IN
       IF r.kind = "row" /\ Writable(Flatten(r.row))
       THEN /\ header' = r.row
            /\ clean' = clean \o HeaderWritten(r.row)
            /\ expected_columns' = IF expected_arg = NoneInt THEN Len(r.row)
                                   ELSE expected_arg
            /\ pos' = r.next - 1
            /\ hdr_lines' = r.next - 1
            /\ phys_line_no' = 2
            /\ buffered_line' = None
            /\ pc' = "loop"
            /\ UNCHANGED <<log, error>>
       ELSE IF r.kind = "row"
       THEN \* writer.writerow(header) raised: lines 375-377
            /\ log' = log \o (IF entry = "main" THEN <<"critical", "error">>
                              ELSE <<"critical">>)
            /\ pc' = "failed"
            /\ error' = "UnicodeEncodeError"
            /\ UNCHANGED <<header, clean, expected_columns, pos, hdr_lines,
                           phys_line_no, buffered_line>>
       ELSE /\ log' = Append(log, "error")
            /\ pc' = IF r.kind = "stop" /\ entry = "process_csv_streaming"
                     THEN "done" ELSE "failed"
            /\ error' = IF r.kind # "stop" THEN "csv.Error"
                        ELSE IF entry = "main" THEN "TypeError" ELSE error
            /\ UNCHANGED <<header, clean, expected_columns, pos, hdr_lines,
                           phys_line_no, buffered_line>>
    /\ UNCHANGED <<params, stats, delimiter, expected_arg, counters, bad_raw,
                   stdout, progress, outcomes>>

\* ------------------------------------------------------------------------
\* The classification loop: process_csv_stream lines 326-395 and
\* process_csv_streaming lines 290-361.  One action per way an iteration
\* can go.
\* ------------------------------------------------------------------------
\* text_stream.readline() / infile.readline() after p lines: '' at EOF
readline(p) == IF p < Len(input) THEN input[p + 1] ELSE <<>>

from_buffer == buffered_line # None

\* A variant of cur_line that ignores the buffer.
cur_line_Unbuffered == readline(pos)

\* The current line: the buffered one if there is one, else the next read.
cur_line == IF from_buffer THEN buffered_line[1] ELSE readline(pos)

\* A variant of pos_cur in which reading a line does not move the stream.
pos_cur_Stuck == pos

\* The stream's position once the current line is obtained.
pos_cur == IF from_buffer \/ cur_line = <<>> THEN pos ELSE pos + 1

\* history: the physical position of the current line in the input
cur_idx == IF from_buffer THEN pos ELSE pos + 1

\* A variant of row that parses the line without its terminator.
row_Stripped == _parse_row(rstrip(cur_line), delimiter)

\* row = _parse_row(cur_line)
row == _parse_row(cur_line, delimiter)

\* A variant of HasExpected whose expected count depends on the rows
\* already written.
HasExpected_Drifting(r) ==
    r.ok /\ Len(r.row) = expected_columns - (valid_count \div 2)

\* A variant of HasExpected whose expected count is taken anew from the
\* header once a line has been rejected.
HasExpected_Recomputed(r) ==
    r.ok /\ Len(r.row) = IF bad_count > 0 THEN Len(header)
                         ELSE expected_columns

\* A variant of HasExpected that accepts every row that parses.
HasExpected_Parsed(r) == r.ok

\* A variant of HasExpected that accepts short rows.
HasExpected_AtMost(r) == r.ok /\ Len(r.row) <= expected_columns

\* row is not None and len(row) == expected_columns
HasExpected(r) == r.ok /\ Len(r.row) = expected_columns

\* The one further line read for the repair.
next_line == readline(pos_cur)

\* A variant of combined that keeps the line terminators.
combined_Raw == cur_line \o next_line

\* A variant of combined in which only process_csv_stream strips the line
\* terminators.
combined_StreamOnly ==
    IF entry = "process_csv_stream" THEN rstrip(cur_line) \o lstrip(next_line)
    ELSE cur_line \o next_line

combined == rstrip(cur_line) \o lstrip(next_line)

combined_row == _parse_row(combined, delimiter)

\* A variant of Rebuffer that forgets the further line.
Rebuffer_Drop(line) == None

\* A variant of Rebuffer that keeps the current line instead.
Rebuffer_Current(line) == Some(cur_line)

\* buffered_line = next_line
Rebuffer(line) == Some(line)

\* A variant of RawEntry that writes the joined text.
RawEntry_Joined(cur, nxt) == rstrip(cur) \o lstrip(nxt)

\* A variant of RawEntry that writes the further line.
RawEntry_Further(cur, nxt) == nxt

\* badraw.write(cur_line) / bad_raw_buf.write(cur_line)
RawEntry(cur, nxt) == cur

\* A variant of Description that looks at the field count before the
\* content.
Description_CountFirst(r, content, after_splice) ==
    IF ~r.ok
    THEN [reason |-> "unparsable row", K |-> NoneInt, N |-> expected_columns]
    ELSE IF Len(r.row) # expected_columns
    THEN [reason |-> "wrong column count", K |-> Len(r.row),
          N |-> expected_columns]
    ELSE [reason |-> "empty line", K |-> NoneInt, N |-> NoneInt]

\* desc: the first rule that matches.  Where the line could not be parsed,
\* process_csv_stream words the reason differently after a failed splice.
Description(r, content, after_splice) ==
    IF IsBlank(content)
    THEN [reason |-> "empty line", K |-> NoneInt, N |-> NoneInt]
    ELSE IF ~r.ok
    THEN [reason |-> IF after_splice /\ entry = "process_csv_stream"
                     THEN "unparsable row (could not be parsed)"
                     ELSE "unparsable row",
          K |-> NoneInt, N |-> expected_columns]
    ELSE [reason |-> "wrong column count", K |-> Len(r.row),
          N |-> expected_columns]

\* bad_writer.writerow([phys_line_no, "Ошибка_структуры", desc, content])
BadRecord(after_splice) ==
    [line_number |-> phys_line_no, error_kind |-> "StructureError",
     description |-> Description(row, rstrip(cur_line), after_splice),
     original_content |-> rstrip(cur_line)]

\* A variant of Counted that counts a row twice.
Counted_Twice(n) == n + 2

\* valid_count += 1, bad_count += 1
Counted(n) == n + 1

\* total_count counts the lines read from the stream in this iteration
\* (process_csv_stream only).
CountRead(further) ==
    IF entry = "process_csv_stream"
    THEN total_count + (IF from_buffer THEN 0 ELSE 1) + (IF further THEN 1 ELSE 0)
    ELSE total_count

Outcome(kind, n) == [kind |-> kind, idx |-> cur_idx, n |-> n]

\* A variant of Called that calls after every iteration.
Called_Always(v, b, t) ==
    IF entry = "process_csv_stream" /\ progress_callback
    THEN Append(progress, <<v, b, t>>)
    ELSE progress

\* process_csv_stream, lines 394-395:
\* if progress_callback and (valid_count + bad_count) % 5000 == 0:
\*     progress_callback(valid_count, bad_count, total_count)
\* with the counters as the iteration left them.
Called(v, b, t) ==
    IF /\ entry = "process_csv_stream"
       /\ progress_callback
       /\ (v + b) % ProgressEvery = 0
    THEN Append(progress, <<v, b, t>>)
    ELSE progress

\* if not cur_line: break
LoopExit ==
    /\ pc = "loop"
    /\ cur_line = <<>>
    /\ pc' = IF entry = "main" THEN "summary" ELSE "done"
    /\ UNCHANGED <<params, stats, delimiter, expected_arg, expected_columns,
                   header, loopvars, counters, sinks, log, stdout, progress, error,
                   outcomes, hdr_lines>>

\* The current line alone has the expected number of fields.
StepValid ==
    /\ pc = "loop"
    /\ cur_line # <<>>
    /\ HasExpected(row)
    /\ Writable(cur_line)
    /\ clean' = Append(clean, writerow(row.row, export_delimiter))
    /\ valid_count' = Counted(valid_count)
    /\ phys_line_no' = phys_line_no + 1
    /\ pos' = pos_cur
    /\ buffered_line' = None
    /\ total_count' = CountRead(FALSE)
    /\ outcomes' = Append(outcomes, Outcome("Valid", 1))
    /\ UNCHANGED <<params, pc, stats, delimiter, expected_arg,
                   expected_columns, header, bad_count, bad, bad_raw, log,
                   stdout, error, hdr_lines>>
    /\ progress' = Called(valid_count', bad_count', total_count')

\* The current line joined with the further line has the expected number.
StepSpliced ==
    /\ pc = "loop"
    /\ cur_line # <<>>
    /\ ~HasExpected(row)
    /\ next_line # <<>>
    /\ HasExpected(combined_row)
    /\ Writable(cur_line) /\ Writable(next_line)
    /\ clean' = Append(clean, writerow(combined_row.row, export_delimiter))
    /\ valid_count' = Counted(valid_count)
    /\ phys_line_no' = phys_line_no + 2
    /\ pos' = pos_cur + 1
    /\ buffered_line' = None
    /\ total_count' = CountRead(TRUE)
    /\ outcomes' = Append(outcomes, Outcome("SplicedValid", 2))
    /\ UNCHANGED <<params, pc, stats, delimiter, expected_arg,
                   expected_columns, header, bad_count, bad, bad_raw, log,
                   stdout, error, hdr_lines>>
    /\ progress' = Called(valid_count', bad_count', total_count')

\* The splice failed: the current line is bad, the further line is kept.
StepInvalidRebuffer ==
    /\ pc = "loop"
    /\ cur_line # <<>>
    /\ ~HasExpected(row)
    /\ next_line # <<>>
    /\ ~HasExpected(combined_row)
    /\ Writable(cur_line)
    /\ bad' = Append(bad, BadRecord(TRUE))
    /\ bad_raw' = Append(bad_raw, RawEntry(cur_line, next_line))
    /\ bad_count' = Counted(bad_count)
    /\ phys_line_no' = phys_line_no + 1
    /\ pos' = pos_cur + 1
    /\ buffered_line' = Rebuffer(next_line)
    /\ total_count' = CountRead(TRUE)
    /\ outcomes' = Append(outcomes, Outcome("Invalid", 1))
    /\ UNCHANGED <<params, pc, stats, delimiter, expected_arg,
                   expected_columns, header, valid_count, clean, log, stdout,
                   error, hdr_lines>>
    /\ progress' = Called(valid_count', bad_count', total_count')

\* No further line: the current line is bad.
StepInvalidEOF ==
    /\ pc = "loop"
    /\ cur_line # <<>>
    /\ ~HasExpected(row)
    /\ next_line = <<>>
    /\ Writable(cur_line)
    /\ bad' = Append(bad, BadRecord(FALSE))
    /\ bad_raw' = Append(bad_raw, RawEntry(cur_line, next_line))
    /\ bad_count' = Counted(bad_count)
    /\ phys_line_no' = phys_line_no + 1
    /\ pos' = pos_cur
    /\ buffered_line' = None
    /\ total_count' = CountRead(FALSE)
    /\ outcomes' = Append(outcomes, Outcome("Invalid", 1))
    /\ UNCHANGED <<params, pc, stats, delimiter, expected_arg,
                   expected_columns, header, valid_count, clean, log, stdout,
                   error, hdr_lines>>
    /\ progress' = Called(valid_count', bad_count', total_count')

\* process_csv_streaming, lines 363-373: writer.writerow(combined_row)
\* raised on the further line's text.  The handler records the current
\* line as a processing error; the further line is not kept.
StepProcessingError ==
    /\ pc = "loop"
    /\ cur_line # <<>>
    /\ ~HasExpected(row)
    /\ next_line # <<>>
    /\ HasExpected(combined_row)
    /\ Writable(cur_line) /\ ~Writable(next_line)
    /\ bad' = Append(bad, [line_number |-> phys_line_no,
                           error_kind |-> "ProcessingError",
                           description |-> [reason |-> "processing error",
                                            K |-> NoneInt, N |-> NoneInt],
                           original_content |-> rstrip(cur_line)])
    /\ bad_raw' = Append(bad_raw, cur_line)
    /\ bad_count' = Counted(bad_count)
    /\ phys_line_no' = phys_line_no + 1
    /\ pos' = pos_cur + 1
    /\ buffered_line' = None
    /\ total_count' = CountRead(TRUE)
    /\ outcomes' = Append(outcomes, Outcome("Invalid", 1))
    /\ UNCHANGED <<params, pc, stats, delimiter, expected_arg,
                   expected_columns, header, valid_count, clean, log, stdout, progress,
                   error, hdr_lines>>

\* process_csv_streaming, lines 363-377: a write raised on the current
\* line's text, and so does the handler's bad_writer.writerow, which
\* writes the same text: the exception leaves the loop, is logged as
\* critical and raised again (main logs it once more).
StepCritical ==
    /\ pc = "loop"
    /\ cur_line # <<>>
    /\ ~Writable(cur_line)
    /\ pos' = IF HasExpected(row) \/ next_line = <<>> THEN pos_cur
              ELSE pos_cur + 1
    /\ buffered_line' = None
    /\ pc' = "failed"
    /\ error' = "UnicodeEncodeError"
    /\ log' = log \o (IF entry = "main" THEN <<"critical", "error">>
                      ELSE <<"critical">>)
    /\ total_count' = total_count
    /\ UNCHANGED <<params, stats, delimiter, expected_arg, expected_columns,
                   header, phys_line_no, valid_count, bad_count, sinks,
                   stdout, progress, outcomes, hdr_lines>>

\* A variant of SummaryLine that reports every classified line as valid.
SummaryLine_All == [VALID |-> valid_count + bad_count, BAD |-> bad_count]

\* main, line 434: __SUMMARY__ VALID={valid_count} BAD={bad_count}
SummaryLine == [VALID |-> valid_count, BAD |-> bad_count]

\* main, lines 432-437: the summary line
PrintSummary ==
    /\ pc = "summary"
    /\ stdout' = Append(stdout, SummaryLine)
    /\ pc' = "done"
    /\ UNCHANGED <<params, stats, delimiter, expected_arg, expected_columns,
                   header, loopvars, counters, sinks, log, progress, error, outcomes,
                   hdr_lines>>

Next ==
    \/ AnalyzeStream \/ StrictCheck \/ ReadHeaderStream
    \/ AnalyzeBatch \/ Resolve90 \/ ReadHeaderBatch
    \/ LoopExit \/ StepValid \/ StepSpliced \/ StepInvalidRebuffer
    \/ StepInvalidEOF \/ PrintSummary

Spec == Init /\ [][Next]_vars

\* ------------------------------------------------------------------------
\* The resolver alone: main's 90% rule applied to statistics drawn from a
\* bounded set (the sample that gave them is not represented).
\* ------------------------------------------------------------------------
\* The most columns and the most data rows of the drawn statistics.
MaxCols == 6
MaxRows == 25

DrawnStats ==
    { [kind |-> "ok", path |-> "ranked", delim |-> "|", header_cols |-> h,
       modal_cols |-> m, total_rows |-> n + 1, modal_share |-> <<k, n>>] :
          h \in 1..MaxCols, m \in 1..MaxCols, n \in 1..MaxRows, k \in 1..MaxRows }

InitResolver ==
    /\ entry = "main"
    /\ input = <<>>
    /\ provided_delimiter = NoDelim /\ sniffed = NoDelim
    /\ export_delimiter \in ExportDelims
    /\ progress_callback = FALSE
    /\ detected = NotDetected /\ encoding = UTF8
    /\ delimiter = NoDelim
    /\ expected_arg = NoneInt
    /\ pc = "resolve"
    /\ expected_columns = NoneInt
    /\ header = <<>>
    /\ pos = 0
    /\ buffered_line = None
    /\ phys_line_no = 0
    /\ valid_count = 0 /\ bad_count = 0 /\ total_count = 0
    /\ clean = <<>> /\ bad = <<>> /\ bad_raw = <<>>
    /\ log = <<>> /\ stdout = <<>> /\ progress = <<>>
    /\ error = NoError
    /\ outcomes = <<>>
    /\ hdr_lines = 0
    /\ stats \in { st \in DrawnStats : st.modal_share[1] <= st.modal_share[2] }

NextResolver == Resolve90

SpecResolver == InitResolver /\ [][NextResolver]_vars

\* ------------------------------------------------------------------------
\* History read-outs used by the properties
\* ------------------------------------------------------------------------
\* The indices of the outcomes of the given kinds, and the k-th of them.
OutcomesOf(kinds) == { i \in 1..Len(outcomes) : outcomes[i].kind \in kinds }

NumberOf(kinds) == Cardinality(OutcomesOf(kinds))

Nth(kinds, k) ==
    outcomes[CHOOSE i \in OutcomesOf(kinds) :
                Cardinality({ j \in OutcomesOf(kinds) : j <= i }) = k]

\* The physical lines an outcome stands for.
LinesOf(o) == o.idx..(o.idx + o.n - 1)

\* The text an outcome's row was parsed from.
TextOf(o) ==
    IF o.n = 1 THEN input[o.idx]
    ELSE rstrip(input[o.idx]) \o lstrip(input[o.idx + 1])

LoopEnded == pc \in {"summary", "done"} /\ hdr_lines > 0

HeaderRead == pc \in {"loop", "summary", "done"} /\ hdr_lines > 0

Good == {"Valid", "SplicedValid"}

FailedSplice ==
    /\ pc = "loop"
    /\ cur_line # <<>>
    /\ ~HasExpected(row)
    /\ next_line # <<>>
    /\ ~HasExpected(combined_row)

\* Every line recorded so far lies before the current line.
BehindCurrent ==
    \A i \in 1..Len(outcomes) :
        \A j \in LinesOf(outcomes[i]) : j < cur_idx

\* The line after the Invalid outcome i was the current line of the very
\* next iteration and was judged alone first: the next outcome starts at
\* it, and is Valid exactly if the line alone has the expected fields.
JudgedAlone(i) ==
    LET m == outcomes[i].idx + 1 IN
    (outcomes[i].kind = "Invalid" /\ m <= Len(input)) =>
        IF i = Len(outcomes)
        THEN pc = "loop" /\ from_buffer /\ cur_idx = m /\ cur_line = input[m]
        ELSE /\ outcomes[i + 1].idx = m
             /\ outcomes[i + 1].kind = "Valid"
                   <=> HasExpected(_parse_row(input[m], delimiter))

\* C2: when the splice of L with M fails, the step records L as Invalid,
\* once, and keeps M in the buffer; M is the current line of the next
\* iteration, where it is parsed alone, and L lies behind it, out of reach
\* of any later splice.
C2_SpliceBound ==
    /\ [](\A i \in 1..Len(outcomes) : JudgedAlone(i))
    /\ [][FailedSplice =>
             /\ outcomes' = Append(outcomes, [kind |-> "Invalid",
                                              idx |-> cur_idx, n |-> 1])
             /\ Len(bad') = Len(bad) + 1
             /\ Len(bad_raw') = Len(bad_raw) + 1
             /\ clean' = clean
             /\ buffered_line' = <<next_line>>
             /\ pc' = "loop"
             /\ cur_line' = next_line
             /\ cur_idx' = cur_idx + 1
             /\ BehindCurrent']_vars

\* After a failed splice the buffered line is the current one, and alone
\* it is a valid row.
C2_Witness ==
    /\ pc = "loop"
    /\ from_buffer
    /\ outcomes # <<>>
    /\ outcomes[Len(outcomes)].kind = "Invalid"
    /\ buffered_line[1] = input[pos]
    /\ HasExpected(row)

\* The data lines of the scenario of C3
ScenarioLines ==
    << <<"1", "|", "2", "|", "3">>, <<"4", "|", "5">>, <<"6">> >>

Scenario ==
    /\ delimiter = "|"
    /\ expected_columns = 3
    /\ \E h \in HeaderChoices, st \in Styles :
          input = FileOf(h \o ScenarioLines, st)

\* C3: with delimiter '|', three expected columns and the data lines
\* "1|2|3", "4|5", "6": the first is Valid; "4|5" is joined with "6" to
\* "4|56" (two fields), is Invalid with "wrong column count: 2 instead of
\* 3", and "6" is buffered; "6" meets the end of input and is Invalid with
\* "wrong column count: 1 instead of 3"; valid = 1, bad = 2.
C3_Scenario ==
    (Scenario /\ pc \in {"loop", "summary", "done"}) =>
        /\ (pc = "loop" /\ rstrip(cur_line) = ScenarioLines[2]) =>
              /\ rstrip(combined) = <<"4", "|", "5", "6">>
              /\ combined_row.ok
              /\ Len(combined_row.row) = 2
        /\ (pc = "loop" /\ from_buffer) =>
              rstrip(buffered_line[1]) = ScenarioLines[3]
        /\ LoopEnded =>
              /\ [i \in 1..Len(outcomes) |-> outcomes[i].kind]
                    = <<"Valid", "Invalid", "Invalid">>
              /\ valid_count = 1
              /\ bad_count = 2
              /\ clean = << writerow(header, export_delimiter),
                            <<QUOTE, "1", QUOTE, export_delimiter,
                              QUOTE, "2", QUOTE, export_delimiter,
                              QUOTE, "3", QUOTE, CR, LF>> >>
              /\ Len(bad) = 3
              /\ bad[2].description = [reason |-> "wrong column count",
                                       K |-> 2, N |-> 3]
              /\ bad[2].original_content = ScenarioLines[2]
              /\ bad[3].description = [reason |-> "wrong column count",
                                       K |-> 1, N |-> 3]
              /\ bad[3].original_content = ScenarioLines[3]

\* The scenario has run to its end.
C3_Witness == Scenario /\ LoopEnded /\ bad_count = 2

\* C4: BadRaw holds one entry per Invalid outcome, in order, and each is
\* the physical line as it was read, terminator included: never the joined
\* text.
C4_BadRaw ==
    /\ Len(bad_raw) = NumberOf({"Invalid"})
    /\ \A k \in 1..Len(bad_raw) :
          bad_raw[k] = input[Nth({"Invalid"}, k).idx]

\* A line ended by "\r\n" went to BadRaw after its splice failed.
C4_Witness ==
    /\ pc = "loop"
    /\ from_buffer
    /\ bad_raw # <<>>
    /\ LET e == bad_raw[Len(bad_raw)] IN
          /\ Len(e) > 2
          /\ SubSeq(e, Len(e) - 1, Len(e)) = <<CR, LF>>

C6_LineNumbers ==
    \A k \in 1..NumberOf({"Invalid"}) :
        /\ Len(bad) > k
        /\ bad[k + 1].line_number = Nth({"Invalid"}, k).idx

\* C7: main resolves the expected column count to modal_cols exactly if
\* modal_share >= 0.9, the boundary included, and to header_cols
\* otherwise, whether or not the two counts are equal; (5, 6, 0.92) gives
\* 6 and (5, 6, 0.85) gives 5.
C7_NinetyPercentRule ==
    (entry = "main" /\ pc = "header") =>
        /\ expected_arg =
              IF 10 * stats.modal_share[1] >= 9 * stats.modal_share[2]
              THEN stats.modal_cols ELSE stats.header_cols
        /\ (stats.header_cols = 5 /\ stats.modal_cols = 6) =>
              /\ stats.modal_share = <<23, 25>> => expected_arg = 6
              /\ stats.modal_share = <<17, 20>> => expected_arg = 5
              /\ stats.modal_share = <<9, 10>> => expected_arg = 6

\* The rule has been applied to a share of exactly 0.9.
C7_Witness ==
    /\ entry = "main" /\ pc = "header"
    /\ stats.header_cols = 5 /\ stats.modal_cols = 6
    /\ stats.modal_share = <<9, 10>>
    /\ expected_arg = 6

\* C8 as stated: whenever the rule falls back to the header's count
\* (modal_share < 0.9), a warning is reported.
C8_WarnsOnEveryFallback ==
    (entry = "main" /\ stats # NoStats /\ pc # "resolve"
        /\ ~NinetyPercent(stats.modal_share)) =>
            InSeq("warning_fallback", log)

\* C8, amended: the warning is reported exactly if modal_share < 0.9 and
\* header_cols differs from modal_cols; whatever the share, the run goes
\* on to classification and does not fail.
C8_FallbackWarning ==
    (entry = "main" /\ stats # NoStats /\ pc # "resolve") =>
        /\ InSeq("warning_fallback", log) <=>
              (~NinetyPercent(stats.modal_share)
                  /\ stats.header_cols # stats.modal_cols)
        /\ pc \in {"header", "loop", "summary", "done"}
        /\ error = NoError
        /\ pc \in {"loop", "summary", "done"} =>
              expected_columns = expected_arg

\* A run of main that warned, fell back to the header's count and
\* classified its lines.
C8_Witness ==
    /\ entry = "main" /\ pc = "done"
    /\ InSeq("warning_fallback", log)
    /\ expected_columns = stats.header_cols
    /\ outcomes # <<>>

\* C9: process_csv_stream fails with a ValueError whenever header_cols
\* differs from modal_cols, whatever the modal share, before any line is
\* classified and with nothing in Clean, Bad or BadRaw; when the two are
\* equal it goes on, with the field count of the header it reads as
\* expected_columns.
C9_StrictPolicy ==
    (entry = "process_csv_stream" /\ stats # NoStats /\ pc # "strict") =>
        IF stats.header_cols # stats.modal_cols
        THEN /\ pc = "failed" /\ error = "ValueError"
             /\ clean = <<>> /\ bad = <<>> /\ bad_raw = <<>>
             /\ outcomes = <<>>
             /\ valid_count = 0 /\ bad_count = 0 /\ total_count = 0
        ELSE /\ pc \in {"header", "loop", "done"}
             /\ error = NoError
             /\ pc \in {"loop", "done"} =>
                   /\ header = Reader_iternext(input, 1, delimiter).row
                   /\ expected_columns = Len(header)

\* The strict policy failed a file whose modal share is at least 0.9.
C9_Witness ==
    /\ entry = "process_csv_stream" /\ pc = "failed"
    /\ stats # NoStats
    /\ NinetyPercent(stats.modal_share)
    /\ stats.header_cols # stats.modal_cols

\* C10: a run on the empty input ends with an error and with nothing in
\* Clean, Bad or BadRaw, in the statistics pass and in the functions that
\* find no header.
C10_EmptyInput ==
    (input = <<>> /\ pc \in {"done", "failed"}) =>
        /\ pc = "failed"
        /\ error # NoError
        /\ clean = <<>> /\ bad = <<>> /\ bad_raw = <<>>

\* ------------------------------------------------------------------------
\* The statistics pass alone, on samples where ';' splits 95% of the data
\* rows into five fields and ',' only 60% of them.
\* ------------------------------------------------------------------------
\* The data rows of a sample.
SampleRows == 20
\* The most rows of a sample that hold many commas.
MaxWide == 7

Semi5Rows == (95 * SampleRows) \div 100
Comma5Rows == (60 * SampleRows) \div 100

\* Five fields under ';' and under ','
RowBoth ==
    <<"1", ",", "2", ";", "3", ",", "4", ";", "5", ",", "6", ";",
      "7", ",", "8", ";", "9">>
\* Five fields under ';', one under ','
RowSemi == <<"1", ";", "2", ";", "3", ";", "4", ";", "5">>
\* Five fields under ';', seven under ','
RowWide ==
    <<"1", ",", ",", ";", "2", ",", ",", ";", "3", ",", ",", ";",
      "4", ";", "5">>
\* Three fields under ';', one under ','
RowShort == <<"1", ";", "2", ";", "3">>
\* One field under ';', five under ','
RowComma == <<"1", ",", "2", ",", "3", ",", "4", ",", "5">>

\* n times the row r
Times(r, n) == [i \in 1..n |-> r]

\* The data rows: odd rows (not five fields under ';') of one kind, put
\* after the first p other rows; w of the rows that do not have five fields
\* under ',' hold many commas.
SampleData(odd, p, w) ==
    LET o == SampleRows - Semi5Rows
        b == IF odd = RowComma THEN Comma5Rows - o ELSE Comma5Rows
        rest == Times(RowBoth, b) \o Times(RowWide, w)
                   \o Times(RowSemi, Semi5Rows - b - w)
    IN  SubSeq(rest, 1, p) \o Times(odd, o) \o SubSeq(rest, p + 1, Len(rest))

SelectionSamples ==
    { FileOf(<<h>> \o SampleData(odd, p, w), [term |-> <<LF>>, last |-> TRUE]) :
        h \in {RowBoth, RowSemi}, odd \in {RowShort, RowComma},
        p \in {0, Comma5Rows, Semi5Rows}, w \in 0..MaxWide }

\* What csv.Sniffer gives for such a sample
SelectionSniffed == {NoDelim, ",", ";", "|"}

InitSelect ==
    /\ input \in SelectionSamples
    /\ export_delimiter \in ExportDelims
    /\ progress_callback = FALSE
    /\ detected = NotDetected /\ encoding = UTF8
    /\ entry \in {"main", "process_csv_stream"}
    /\ provided_delimiter = NoDelim
    /\ sniffed \in SelectionSniffed
    /\ delimiter = NoDelim
    /\ expected_arg = NoneInt
    /\ pc = "analyze"
    /\ Fresh

NextSelect == AnalyzeBatch \/ AnalyzeStream

SpecSelect == InitSelect /\ [][NextSelect]_vars

\* The number of data rows of the input that have n fields under d.
RowsWith(n, d) ==
    Cardinality({ i \in 2..Len(input) :
                    Len(Reader_iternext(<<input[i]>>, 1, d).row) = n })

\* 95% of the data rows have five fields under ';', 60% under ','; tab and
\* '|' are in no line.
Premise95 ==
    /\ Len(input) > 1
    /\ 100 * RowsWith(5, ";") = 95 * (Len(input) - 1)
    /\ 100 * RowsWith(5, ",") = 60 * (Len(input) - 1)
    /\ \A i \in 1..Len(input) :
          CountChar(input[i], TAB) = 0 /\ CountChar(input[i], "|") = 0

C12_StreamSelectsSemicolon ==
    (entry = "process_csv_stream" /\ pc # "analyze" /\ Premise95) =>
        /\ pc = "strict"
        /\ stats.delim = ";"

\* C13: main writes the summary line once, after the classification pass
\* has read the whole input, with VALID the number of data rows in Clean
\* and BAD the number of records in Bad; a run that failed has written
\* none, and neither has a call of another function.
C13_Summary ==
    /\ Len(stdout) <= 1
    /\ stdout # <<>> =>
          /\ entry = "main" /\ pc = "done"
          /\ pos = Len(input) /\ buffered_line = None
          /\ stdout[1] = [VALID |-> Len(clean) - 1, BAD |-> Len(bad) - 1]
    /\ (entry = "main" /\ pc = "done") => Len(stdout) = 1
    /\ pc = "failed" => stdout = <<>>

\* main has written the summary of a run with valid and bad lines.
C13_Witness ==
    /\ entry = "main" /\ pc = "done"
    /\ stdout = <<[VALID |-> 1, BAD |-> 2]>>

\* ------------------------------------------------------------------------
\* process_csv_streaming called on a file whose decoded text holds lone
\* surrogates (encoding='utf-7').
\* ------------------------------------------------------------------------
EncodeContents ==
    { <<"1", "|", "2", "|", "3">>,
      <<"4", "|", "5">>,
      <<"6">>,
      <<"4", "|", SURROGATE, "|", "6">>,
      <<"|", SURROGATE>> }

EncodeFiles ==
    { FileOf(<< <<"a", "|", "b", "|", "c">> >> \o cs,
             [term |-> <<LF>>, last |-> TRUE]) :
        cs \in UNION { SeqsOf(EncodeContents, n) : n \in 0..MaxDataLines } }

InitEncode ==
    /\ input \in EncodeFiles
    /\ export_delimiter \in ExportDelims
    /\ progress_callback = FALSE
    /\ detected = NotDetected /\ encoding = UTF8
    /\ entry = "process_csv_streaming"
    /\ provided_delimiter = NoDelim
    /\ sniffed = NoDelim
    /\ delimiter \in ArgDelims
    /\ expected_arg \in ArgExpected
    /\ pc = "header"
    /\ Fresh

NextEncode ==
    \/ ReadHeaderBatch
    \/ LoopExit \/ StepValid \/ StepSpliced \/ StepInvalidRebuffer
    \/ StepInvalidEOF \/ StepProcessingError \/ StepCritical

SpecEncode == InitEncode /\ [][NextEncode]_vars

\* C14: in process_csv_streaming an error raised while one line is
\* processed does not end the run: once the loop runs, the run does not
\* fail, and the line is one record of Bad, counted once in bad_count.
C14_ErrorContained ==
    (entry = "process_csv_streaming" /\ hdr_lines > 0) =>
        /\ pc # "failed"
        /\ error = NoError
        /\ Len(bad) = 1 + bad_count

\* What the input, the delimiter and expected_columns make of the line at
\* position j when it is the current line.
AloneAt(j) == _parse_row(input[j], delimiter)

JoinedAt(j) == _parse_row(rstrip(input[j]) \o lstrip(input[j + 1]), delimiter)

Fits(r) == r.ok /\ Len(r.row) = expected_columns

KindAt(j) ==
    IF Fits(AloneAt(j)) THEN "Valid"
    ELSE IF j < Len(input) /\ Fits(JoinedAt(j)) THEN "SplicedValid"
    ELSE "Invalid"

\* Where the i-th iteration starts: after the header, then after the lines
\* of the outcome before.
StartOf(i) ==
    IF i = 1 THEN hdr_lines + 1
    ELSE outcomes[i - 1].idx + outcomes[i - 1].n

\* The reason, K and N of the Bad record of the line at position j.
ReasonAt(j) ==
    IF IsBlank(rstrip(input[j])) THEN <<"empty line", NoneInt, NoneInt>>
    ELSE IF AloneAt(j).ok
    THEN <<"wrong column count", Len(AloneAt(j).row), expected_columns>>
    ELSE <<"unparsable", NoneInt, expected_columns>>

\* C15: what a run of the classification pass has produced is a function
\* of the input lines, the delimiter and expected_columns (and the output
\* delimiter): the outcomes follow from them line by line, Clean, Bad and
\* BadRaw follow from the outcomes, the counters count them.  Two runs on
\* the same input and parameters therefore agree in all of them.
C15_Determinism ==
    /\ \A i \in 1..Len(outcomes) :
          /\ outcomes[i].idx = StartOf(i)
          /\ outcomes[i].kind = KindAt(StartOf(i))
          /\ outcomes[i].n = IF outcomes[i].kind = "SplicedValid" THEN 2 ELSE 1
    /\ LoopEnded => StartOf(Len(outcomes) + 1) = Len(input) + 1
    /\ valid_count = NumberOf(Good)
    /\ bad_count = NumberOf({"Invalid"})
    /\ HeaderRead =>
          /\ header = Reader_iternext(input, 1, delimiter).row
          /\ Tail(clean) =
                [k \in 1..NumberOf(Good) |->
                    writerow(_parse_row(TextOf(Nth(Good, k)), delimiter).row,
                             export_delimiter)]
          /\ Head(clean) = writerow(header, export_delimiter)
    /\ bad_raw = [k \in 1..NumberOf({"Invalid"}) |->
                    input[Nth({"Invalid"}, k).idx]]
    /\ bad # <<>> =>
          /\ Len(bad) = 1 + NumberOf({"Invalid"})
          /\ \A k \in 1..NumberOf({"Invalid"}) :
                LET j == Nth({"Invalid"}, k).idx IN
                /\ bad[k + 1].line_number = j - hdr_lines + 1
                /\ bad[k + 1].original_content = rstrip(input[j])
                /\ bad[k + 1].description.K = ReasonAt(j)[2]
                /\ bad[k + 1].description.N = ReasonAt(j)[3]
                /\ ReasonAt(j)[1] # "unparsable" =>
                      bad[k + 1].description.reason = ReasonAt(j)[1]

\* process_csv_streaming, called with two expected columns, has ended a
\* run with a valid row and a repaired one.
C15_Witness ==
    /\ LoopEnded
    /\ entry = "process_csv_streaming"
    /\ expected_columns = 2
    /\ NumberOf({"Valid"}) >= 1
    /\ NumberOf({"SplicedValid"}) >= 1

\* ------------------------------------------------------------------------
\* process_csv_streaming on files whose fields hold the output delimiter,
\* a double quote or a line terminator.
\* ------------------------------------------------------------------------
\* 1|2~|3    1|"2""|"|3    ~|"3 (the quoted field takes the line's
\* terminator)    4"|5 (a quote inside an unquoted field)    6
RoundTripContents ==
    { <<"1", "|", "2", "~", "|", "3">>,
      <<"1", "|", QUOTE, "2", QUOTE, QUOTE, "|", QUOTE, "|", "3">>,
      <<"~", "|", QUOTE, "3">>,
      <<"4", QUOTE, "|", "5">>,
      <<"6">> }

RoundTripFiles ==
    { FileOf(<< <<"a", "|", "b", "|", "c">> >> \o cs,
             [term |-> t, last |-> TRUE]) :
        cs \in UNION { SeqsOf(RoundTripContents, n) : n \in 0..MaxDataLines },
        t \in { <<LF>>, <<CR, LF>> } }

InitRoundTrip ==
    /\ input \in RoundTripFiles
    /\ export_delimiter \in ExportDelims
    /\ progress_callback = FALSE
    /\ detected = NotDetected /\ encoding = UTF8
    /\ entry = "process_csv_streaming"
    /\ provided_delimiter = NoDelim
    /\ sniffed = NoDelim
    /\ delimiter \in ArgDelims
    /\ expected_arg \in ArgExpected
    /\ pc = "header"
    /\ Fresh

NextRoundTrip ==
    \/ ReadHeaderBatch
    \/ LoopExit \/ StepValid \/ StepSpliced \/ StepInvalidRebuffer
    \/ StepInvalidEOF

SpecRoundTrip == InitRoundTrip /\ [][NextRoundTrip]_vars

\* The field strings of the k-th row written to Clean: the header, then
\* the rows of the valid and repaired lines.
WrittenRow(k) ==
    IF k = 1 THEN header
    ELSE _parse_row(TextOf(Nth(Good, k - 1)), delimiter).row

\* The k-th record of Clean read back by a csv reader with the output
\* delimiter.
ReadBack(k) == Reader_iternext(StringIO(clean[k]), 1, export_delimiter)

HasChar(fields, c) ==
    \E i \in 1..Len(fields) : \E j \in 1..Len(fields[i]) : fields[i][j] = c

\* C16: every record of Clean, read back with the output delimiter by a
\* quote-aware reader, is one row of exactly the field strings written,
\* and Clean as a whole reads back as that many rows.
C16_RoundTrip ==
    /\ \A k \in 1..Len(clean) :
          /\ ReadBack(k).kind = "row"
          /\ ReadBack(k).row = WrittenRow(k)
          /\ ReadBack(k).next = Len(StringIO(clean[k])) + 1
    /\ ReadAll(StringIO(Flatten(clean)), 1, export_delimiter) =
          [err |-> FALSE,
           lengths |-> [k \in 1..Len(clean) |-> Len(WrittenRow(k))]]

\* Clean holds rows with a field that has the output delimiter, one that
\* has a double quote and one that has a line feed.
C16_Witness ==
    /\ LoopEnded
    /\ \E k \in 2..Len(clean) : HasChar(WrittenRow(k), export_delimiter)
    /\ \E k \in 2..Len(clean) : HasChar(WrittenRow(k), QUOTE)
    /\ \E k \in 2..Len(clean) : HasChar(WrittenRow(k), LF)

\* ------------------------------------------------------------------------
\* app_streamlit.analyze_csv_stats_stream and detect_input_delimiter as
\* probes of a text stream that stands at any line boundary; the caller
\* applies each of them once, in either order
\* ------------------------------------------------------------------------
\* max_lines=30 of detect_input_delimiter
MaxLinesSniff == 30

\* Data rows of the file that is longer than detect_input_delimiter's
\* sample
LongRows == 34

LongFile(term) ==
    FileOf(<< <<"a", "|", "b", "|", "c">> >> \o
              [i \in 1..LongRows |-> <<"1", "|", "2", "|", "3">>],
           [term |-> term, last |-> TRUE])

\* The files with at most one data line, and the long file with LF and
\* with lone CR as line terminator.
ProbeFiles ==
    { f \in Files : Len(f) <= 3 } \cup { LongFile(<<LF>>), LongFile(<<CR>>) }

\* Where the stream stands after n calls of readline() from position p.
Readlines(p, n) == IF p + n > Len(input) THEN Len(input) ELSE p + n

\* The lines these calls gave.
LinesRead(p, n) == SubSeq(input, p + 1, Readlines(p, n))

\* A variant of seek that leaves the stream where the reads took it.
seek_Ignored(cur, target) == cur

\* text_stream.seek(pos) on a stream that stands at cur
seek(cur, target) == target

\* dialect.delimiter, or on csv.Error the candidate that occurs most often
detect_input_delimiter(lines, sn) ==
    IF sn # NoDelim THEN sn ELSE MaxFreq(lines, base_candidates)

InitProbe ==
    /\ input \in ProbeFiles
    /\ export_delimiter \in ExportDelims
    /\ progress_callback = FALSE
    /\ detected = NotDetected /\ encoding = UTF8
    /\ entry = "probes"
    /\ \E a \in AnalyzerInputs :
          provided_delimiter = a[1] /\ sniffed = a[2]
    /\ delimiter = NoDelim
    /\ expected_arg = NoneInt
    /\ pc = "probe"
    /\ stats = NoStats
    /\ expected_columns = NoneInt
    /\ header = <<>>
    /\ pos \in 0..Len(input)
    /\ buffered_line = None
    /\ phys_line_no = 0
    /\ valid_count = 0 /\ bad_count = 0 /\ total_count = 0
    /\ clean = <<>> /\ bad = <<>> /\ bad_raw = <<>>
    /\ log = <<>> /\ stdout = <<>> /\ progress = <<>>
    /\ error = NoError
    /\ outcomes = <<>>
    /\ hdr_lines = 0

\* analyze_csv_stats_stream: pos = tell(), the sample is read and
\* analyzed, finally: seek(pos), whether it returns or raises.
ProbeStats ==
    /\ pc = "probe" /\ stats = NoStats /\ error = NoError
    /\ LET r == analyze_csv_stats_stream(LinesRead(pos, Len(input)),
                                         provided_delimiter, sniffed) IN
       IF r.kind = "error"
       THEN error' = r.error /\ stats' = stats
       ELSE stats' = r /\ error' = error
    /\ pc' = pc
    /\ pos' = seek(Readlines(pos, MaxLinesStats), pos)
    /\ UNCHANGED <<params, delimiter, expected_arg, expected_columns, header,
                   buffered_line, phys_line_no, counters, sinks, log, stdout, progress,
                   outcomes, hdr_lines>>

\* detect_input_delimiter: pos = tell(), max_lines lines are read,
\* seek(pos), then the sample is sniffed.
ProbeDelimiter ==
    /\ pc = "probe" /\ delimiter = NoDelim
    /\ delimiter' = detect_input_delimiter(LinesRead(pos, MaxLinesSniff),
                                           sniffed)
    /\ pos' = seek(Readlines(pos, MaxLinesSniff), pos)
    /\ pc' = pc
    /\ UNCHANGED <<params, stats, error, expected_arg, expected_columns,
                   header, buffered_line, phys_line_no, counters, sinks, log,
                   stdout, progress, outcomes, hdr_lines>>

NextProbe == ProbeStats \/ ProbeDelimiter

SpecProbe == InitProbe /\ [][NextProbe]_vars

\* C17: a probe leaves the text stream at the position it had on entry:
\* analyze_csv_stats_stream when it returns and when it raises,
\* detect_input_delimiter whatever number of lines it read.
C17_ProbesRestore == [][pos' = pos]_vars

\* On a stream that stood behind its start and had more lines left than
\* detect_input_delimiter reads, that probe has returned and
\* analyze_csv_stats_stream has raised csv.Error.
C17_Witness ==
    /\ delimiter # NoDelim
    /\ error = "csv.Error"
    /\ pos > 0
    /\ pos + MaxLinesSniff < Len(input)

\* The data rows of Clean and the records of Bad, without the header rows.
DataRows(sink) == IF sink = <<>> THEN 0 ELSE Len(sink) - 1

\* An iteration of the loop that classifies a line is about to run.
Classifying == pc = "loop" /\ cur_line # <<>>

LastOutcome == outcomes[Len(outcomes)]

\* The current line parsed alone, and joined with the further line.
Alone == _parse_row(cur_line, delimiter)

Joined ==
    _parse_row(rstrip(cur_line) \o lstrip(readline(pos_cur)), delimiter)

\* C19: when the current line parsed alone has exactly expected_columns
\* fields, this iteration writes it to Clean as a Valid row, reads no
\* further line, adds 1 to the physical line counter and writes nothing to
\* Bad or BadRaw.
C19_ValidAlone ==
    [][(Classifying /\ Fits(Alone)) =>
          /\ clean' = Append(clean, writerow(Alone.row, export_delimiter))
          /\ outcomes' = Append(outcomes,
                                [kind |-> "Valid", idx |-> cur_idx, n |-> 1])
          /\ valid_count' = valid_count + 1
          /\ phys_line_no' = phys_line_no + 1
          /\ pos' = (IF buffered_line # None THEN pos ELSE pos + 1)
          /\ buffered_line' = None
          /\ entry = "process_csv_stream" =>
                total_count' =
                    total_count + (IF buffered_line # None THEN 0 ELSE 1)
          /\ UNCHANGED <<bad, bad_raw, bad_count>>]_vars

\* main's run has written its first data line as a Valid row while the
\* stream still holds further lines.
C19_Witness ==
    /\ pc = "loop"
    /\ entry = "main"
    /\ Len(outcomes) = 1
    /\ LastOutcome.kind = "Valid"
    /\ phys_line_no = 3
    /\ buffered_line = None
    /\ pos < Len(input)

Remaining ==
    2 * (Len(input) - pos) + (IF buffered_line # None THEN 1 ELSE 0)

\* C21: no run takes steps forever, and every iteration that classifies a
\* line leaves less to classify; the loop is left only when the read gives
\* EOF while the buffer is empty; a line in the buffer is the next one
\* classified; a current line with no further line is recorded as Invalid,
\* nothing is buffered and nothing is left to read.
C21_Terminates ==
    /\ <>[][FALSE]_vars
    /\ [](pc = "loop" => Remaining >= 0)
    /\ [][Classifying => Remaining' < Remaining]_vars
    /\ [][(pc = "loop" /\ pc' # "loop") =>
             /\ buffered_line = None
             /\ pos = Len(input)
             /\ UNCHANGED <<sinks, counters, outcomes>>]_vars
    /\ [][(pc = "loop" /\ buffered_line # None) =>
             /\ Len(outcomes') = Len(outcomes) + 1
             /\ outcomes'[Len(outcomes')].idx = pos
             /\ input[pos] = buffered_line[1]]_vars
    /\ [][(/\ Classifying
           /\ ~Fits(Alone)
           /\ readline(pos_cur) = <<>>) =>
             /\ outcomes' = Append(outcomes,
                                   [kind |-> "Invalid", idx |-> cur_idx,
                                    n |-> 1])
             /\ bad_raw' = Append(bad_raw, cur_line)
             /\ Len(bad') = Len(bad) + 1
             /\ buffered_line' = None
             /\ pos' = Len(input)
             /\ Remaining' = 0]_vars

\* process_csv_stream has ended after its last line, re-buffered by a
\* failed repair, was taken from the buffer and recorded as Invalid.
C21_Witness ==
    /\ pc = "done"
    /\ entry = "process_csv_stream"
    /\ Len(outcomes) >= 2
    /\ LastOutcome.kind = "Invalid"
    /\ LastOutcome.idx = Len(input)
    /\ outcomes[Len(outcomes) - 1].kind = "Invalid"
    /\ outcomes[Len(outcomes) - 1].idx = Len(input) - 1

\* C22: in process_csv_stream total_count is at every point the number of
\* physical lines obtained from the stream (the header's, each current
\* line read, each further line read), and a step adds to it exactly the
\* number of lines it reads, nothing for a line taken from the buffer.
C22_TotalCount ==
    /\ [](entry = "process_csv_stream" => total_count = pos)
    /\ [][entry = "process_csv_stream" =>
             total_count' - total_count = pos' - pos]_vars

\* ------------------------------------------------------------------------
\* Both loops on files with lines that are empty, blank, too short, too
\* long, or hold a field longer than the csv module's field limit.
\* ------------------------------------------------------------------------
\* 1|2|3    4|5    |6    4|5|6|7    (empty)    TAB    4|<oversize>|6
ReasonContents ==
    { <<"1", "|", "2", "|", "3">>,
      <<"4", "|", "5">>,
      <<"|", "6">>,
      <<"4", "|", "5", "|", "6", "|", "7">>,
      <<>>,
      <<TAB>>,
      <<"4", "|", OVERSIZE, "|", "6">> }

ReasonFiles ==
    { FileOf(<< <<"a", "|", "b", "|", "c">> >> \o cs,
             [term |-> <<LF>>, last |-> TRUE]) :
        cs \in UNION { SeqsOf(ReasonContents, n) : n \in 0..MaxDataLines } }

InitReasons ==
    /\ input \in ReasonFiles
    /\ export_delimiter \in ExportDelims
    /\ progress_callback = FALSE
    /\ detected = NotDetected /\ encoding = UTF8
    /\ \/ /\ entry = "process_csv_stream"
          /\ provided_delimiter = "|"
          /\ delimiter = NoDelim
          /\ pc = "analyze"
       \/ /\ entry = "process_csv_streaming"
          /\ provided_delimiter = NoDelim
          /\ delimiter = "|"
          /\ pc = "header"
    /\ sniffed = NoDelim
    /\ expected_arg = NoneInt
    /\ Fresh

NextReasons ==
    \/ AnalyzeStream \/ StrictCheck \/ ReadHeaderStream \/ ReadHeaderBatch
    \/ LoopExit \/ StepValid \/ StepSpliced \/ StepInvalidRebuffer
    \/ StepInvalidEOF

SpecReasons == InitReasons /\ [][NextReasons]_vars

\* content.strip() == "" for the characters of the model
StrippedEmpty(s) == \A i \in 1..Len(s) : s[i] \in {SPACE, TAB, CR, LF}

Unparsable == {"unparsable row", "unparsable row (could not be parsed)"}

\* The description the rules give for the line at position j.
Rule(j) ==
    IF StrippedEmpty(rstrip(input[j])) THEN "empty"
    ELSE IF ~AloneAt(j).ok THEN "unparsable"
    ELSE "count"

RankRows == 3

\* 1;2    1;2;3    3    ,,,,,    1,2;"3    4,5";6    1;<oversize>
RankContents ==
    { <<"1", ";", "2">>,
      <<"1", ";", "2", ";", "3">>,
      <<"3">>,
      <<",", ",", ",", ",", ",">>,
      <<"1", ",", "2", ";", QUOTE, "3">>,
      <<"4", ",", "5", QUOTE, ";", "6">>,
      <<"1", ";", OVERSIZE>> }

RankFiles ==
    { FileOf(<< <<"a", ",", "b", ";", "c">> >> \o cs,
             [term |-> <<LF>>, last |-> TRUE]) :
        cs \in UNION { SeqsOf(RankContents, n) : n \in 0..RankRows } }

InitRank ==
    /\ input \in RankFiles
    /\ export_delimiter \in ExportDelims
    /\ progress_callback = FALSE
    /\ detected = NotDetected /\ encoding = UTF8
    /\ entry \in {"main", "process_csv_stream"}
    /\ \E a \in AnalyzerInputs : provided_delimiter = a[1] /\ sniffed = a[2]
    /\ delimiter = NoDelim
    /\ expected_arg = NoneInt
    /\ pc = "analyze"
    /\ Fresh

NextRank == AnalyzeBatch \/ AnalyzeStream

SpecRank == InitRank /\ [][NextRank]_vars

\* The sample, the candidates and the candidates' statistics of the run.
RankLines == Sample(input)
RankCands == Candidates(provided_delimiter, sniffed)
RankResults == CandidateStats(RankLines, RankCands)
AllResults == {RankResults[i] : i \in 1..Len(RankResults)}

\* The analyzer of entry e has returned.
Analyzed(e) == entry = e /\ pc \notin {"analyze", "failed"}

\* The candidates the batch analyzer sorts: all of them, or those of more
\* than one column when there is one.
Ranked ==
    IF \E r \in AllResults : r.modal_cols > 1
    THEN {r \in AllResults : r.modal_cols > 1}
    ELSE AllResults

\* The returned statistics are the candidate r's.
IsReturned(r) ==
    /\ stats.delim = r.delim
    /\ stats.header_cols = r.header_cols
    /\ stats.modal_cols = r.modal_cols
    /\ stats.total_rows = r.total_rows
    /\ stats.modal_share = r.modal_share

\* a is ahead of b by (score, modal_count, modal_cols)
AheadByCount(a, b) ==
    \/ RatGT(a.modal_share, b.modal_share)
    \/ /\ RatEQ(a.modal_share, b.modal_share)
       /\ \/ a.modal_count > b.modal_count
          \/ a.modal_count = b.modal_count /\ a.modal_cols > b.modal_cols

\* a is ahead of b by (score, modal_cols, modal_count)
AheadByCols(a, b) ==
    \/ RatGT(a.modal_share, b.modal_share)
    \/ /\ RatEQ(a.modal_share, b.modal_share)
       /\ \/ a.modal_cols > b.modal_cols
          \/ a.modal_cols = b.modal_cols /\ a.modal_count > b.modal_count

\* C24 as stated: the candidate the batch analyzer returns from its
\* ranking is one that no ranked candidate is ahead of by
\* (score, modal_count, modal_cols).
C24_RankedByCount ==
    (Analyzed("main") /\ stats.path = "ranked") =>
        \E r \in Ranked :
            IsReturned(r) /\ \A q \in Ranked : ~AheadByCount(q, r)

\* C24: the candidate the batch analyzer returns from its ranking is one
\* that no ranked candidate is ahead of by (score, modal_cols,
\* modal_count): of two candidates of the same modal share the one of
\* more modal columns wins, whatever their modal row counts.
C24_RankedByCols ==
    (Analyzed("main") /\ stats.path = "ranked") =>
        \E r \in Ranked :
            IsReturned(r) /\ \A q \in Ranked : ~AheadByCols(q, r)

\* The batch analyzer returned a candidate that another one, of the same
\* share and of more modal rows, is ahead of by the other order.
C24_Witness ==
    /\ Analyzed("main") /\ stats.path = "ranked"
    /\ \E r, q \in Ranked :
          /\ IsReturned(r)
          /\ AheadByCount(q, r) /\ AheadByCols(r, q)
          /\ q.modal_count > r.modal_count

\* C25: when at least one candidate has more than one modal column, the
\* batch analyzer returns, with modal_cols > 1, a candidate of more than
\* one column that no other such candidate exceeds by modal share, then
\* modal column count, then modal row count; the candidates of one column
\* take no part.
C25_IgnoresOneColumn ==
    (entry = "main" /\ pc # "analyze"
     /\ \E r \in AllResults : r.modal_cols > 1) =>
        /\ pc # "failed"
        /\ stats.path = "ranked"
        /\ stats.modal_cols > 1
        /\ \E r \in AllResults :
              /\ r.modal_cols > 1
              /\ IsReturned(r)
              /\ \A q \in AllResults :
                    q.modal_cols > 1 => ~AheadByCols(q, r)

\* The batch analyzer returned a candidate of several columns although a
\* candidate of one column has a greater modal share.
C25_Witness ==
    /\ Analyzed("main")
    /\ stats.modal_cols > 1
    /\ \E r, q \in AllResults :
          /\ IsReturned(r)
          /\ q.modal_cols = 1
          /\ RatGT(q.modal_share, r.modal_share)

\* C26: whenever at least one candidate gives more than one modal column
\* on the sample, the stream analyzer returns modal_cols > 1.
C26_StreamNeverCollapses ==
    (Analyzed("process_csv_stream")
     /\ \E r \in AllResults : r.modal_cols > 1) => stats.modal_cols > 1

\* The candidates at the top of each analyzer's ranking.
TopByCols == {r \in Ranked : \A q \in Ranked : ~AheadByCols(q, r)}
TopByCount == {r \in AllResults : \A q \in AllResults : ~AheadByCount(q, r)}

\* The ranking of the analyzer of entry e ends on a candidate of one
\* column.
Degenerate(e) ==
    IF e = "main" THEN \E r \in TopByCols : r.modal_cols = 1
    ELSE \E r \in TopByCount : r.modal_cols = 1

\* No candidate occurs more often in the sample's lines than d.
MostFrequent(d) ==
    /\ InSeq(d, RankCands)
    /\ \A i \in 1..Len(RankCands) :
          SumCount(RankLines, RankCands[i]) <= SumCount(RankLines, d)

\* m is a most frequent value of data.
IsModal(m, data) ==
    /\ \E i \in 1..Len(data) : data[i] = m
    /\ \A i \in 1..Len(data) : CountOf(data, data[i]) <= CountOf(data, m)

\* The field counts of the sample's rows under the returned delimiter.
ReturnedLengths == ParseSample(RankLines, stats.delim).lengths

\* C27: in both analyzers, when the ranked candidate has one modal column
\* the result of the ranking gives way to the candidate that occurs most
\* often in the sample's lines, and header_cols, modal_cols, total_rows
\* (and modal_share in the batch analyzer) are those of the sample parsed
\* with that delimiter alone.
C27_DegenerateCorrection ==
    \A e \in {"main", "process_csv_stream"} :
        (Analyzed(e) /\ Degenerate(e)) =>
            /\ stats.path = "frequency"
            /\ MostFrequent(stats.delim)
            /\ stats.header_cols = ReturnedLengths[1]
            /\ stats.total_rows = Len(ReturnedLengths)
            /\ IF Len(ReturnedLengths) = 1
               THEN stats.modal_cols = stats.header_cols
               ELSE IsModal(stats.modal_cols, Tail(ReturnedLengths))
            /\ e = "main" =>
                  stats.modal_share =
                      IF Len(ReturnedLengths) = 1 THEN <<1, 1>>
                      ELSE <<CountOf(Tail(ReturnedLengths), stats.modal_cols),
                             Len(ReturnedLengths) - 1>>

\* The batch analyzer's ranking ended on a one-column candidate of share
\* 1.0 and the delimiter returned is another one, of a smaller share.
C27_Witness ==
    /\ Analyzed("main") /\ Degenerate("main")
    /\ RatGT(<<1, 1>>, stats.modal_share)
    /\ \E r \in TopByCols : r.delim # stats.delim

\* C28: the modal column count an analyzer returns is a most frequent
\* field count among the data rows of the sample under the returned
\* delimiter, and the largest of the equally frequent ones.
C28_ModalLargestOnTies ==
    \A e \in {"main", "process_csv_stream"} :
        (Analyzed(e) /\ ~ParseSample(RankLines, stats.delim).err
         /\ Len(ReturnedLengths) > 1) =>
            /\ IsModal(stats.modal_cols, Tail(ReturnedLengths))
            /\ \A i \in 2..Len(ReturnedLengths) :
                  IsModal(ReturnedLengths[i], Tail(ReturnedLengths))
                      => ReturnedLengths[i] <= stats.modal_cols

\* The field counts that describe the sample under the returned
\* delimiter: those of its rows, or of its lines cut at the delimiter when
\* the sample does not parse.
OwnLengths ==
    IF ParseSample(RankLines, stats.delim).err
    THEN SplitCounts(RankLines, stats.delim)
    ELSE ReturnedLengths

\* C29: the statistics an analyzer returns are those of the delimiter it
\* returns: header_cols is the field count of the sample's first row and
\* modal_cols a most frequent field count of its other rows under that
\* delimiter; the batch analyzer's modal_share is the modal rows over the
\* data rows, above 0 and at most 1; with no data row modal_cols is
\* header_cols and modal_share is 1.0.
C29_StatsOfReturned ==
    \A e \in {"main", "process_csv_stream"} :
        Analyzed(e) =>
            /\ stats.header_cols = OwnLengths[1]
            /\ stats.total_rows = Len(OwnLengths)
            /\ IF Len(OwnLengths) = 1
               THEN /\ stats.modal_cols = stats.header_cols
                    /\ e = "main" => stats.modal_share = <<1, 1>>
               ELSE /\ IsModal(stats.modal_cols, Tail(OwnLengths))
                    /\ e = "main" =>
                          /\ stats.modal_share =
                                <<CountOf(Tail(OwnLengths), stats.modal_cols),
                                  Len(OwnLengths) - 1>>
                          /\ stats.modal_share[1] > 0
                          /\ stats.modal_share[1] <= stats.modal_share[2]

\* The stream analyzer returned another delimiter than the one at the top
\* of its ranking, and other header and modal counts with it.
C29_Witness ==
    /\ Analyzed("process_csv_stream")
    /\ stats.path = "frequency"
    /\ \E r \in TopByCount :
          /\ r.delim # stats.delim
          /\ r.header_cols # stats.header_cols
          /\ r.modal_cols # stats.modal_cols

\* The values the run resolved before its loop: the header's field count
\* or the caller's expected_columns, and the analyzer's or the caller's
\* delimiter.
ResolvedExpected ==
    IF entry = "process_csv_stream" \/ expected_arg = NoneInt
    THEN Len(header) ELSE expected_arg

\* C30: when the loop is entered expected_columns and the input delimiter
\* have their resolved values; no step of the loop, whether the line is
\* valid, spliced, invalid or re-buffered, or the stream at its end,
\* changes either, and each iteration accepts a line exactly by that
\* count under that delimiter.
C30_FixedInLoop ==
    /\ [](pc = "loop" => /\ expected_columns = ResolvedExpected
                         /\ expected_columns # NoneInt
                         /\ delimiter \in {",", ";", TAB, "|"})
    /\ [][pc = "loop" => /\ expected_columns' = expected_columns
                         /\ delimiter' = delimiter
                         /\ expected_arg' = expected_arg
                         /\ header' = header]_vars
    /\ [][Classifying =>
            /\ LastOutcome'.kind = "Valid" <=> Fits(Alone)
            /\ LastOutcome'.kind = "SplicedValid" <=>
                   (~Fits(Alone) /\ readline(pos_cur) # <<>> /\ Fits(Joined))]_vars

\* A run given expected_columns = 2 for a header of three fields has
\* classified a valid and an invalid line and holds a re-buffered one,
\* with expected_columns still 2.
C30_Witness ==
    /\ pc = "loop"
    /\ expected_arg = 2 /\ Len(header) = 3 /\ expected_columns = 2
    /\ buffered_line # None
    /\ \E i, k \in 1..Len(outcomes) :
          /\ outcomes[i].kind = "Valid"
          /\ outcomes[k].kind = "Invalid"

\* ------------------------------------------------------------------------
\* process_csv_stream with and without a progress callback, on files long
\* enough for the classified lines to reach two multiples of the cadence.
\* ------------------------------------------------------------------------
ProgressLines == 4

\* header a|b|c, then lines among 1|2|3    4|5    |6
ProgressFiles ==
    { FileOf(<< <<"a", "|", "b", "|", "c">> >> \o cs,
             [term |-> <<LF>>, last |-> TRUE]) :
        cs \in UNION { SeqsOf({ <<"1", "|", "2", "|", "3">>,
                                <<"4", "|", "5">>,
                                <<"|", "6">> }, n) : n \in 0..ProgressLines } }

InitProgress ==
    /\ input \in ProgressFiles
    /\ export_delimiter \in ExportDelims
    /\ progress_callback \in BOOLEAN
    /\ detected = NotDetected /\ encoding = UTF8
    /\ entry = "process_csv_stream"
    /\ provided_delimiter = "|"
    /\ sniffed = NoDelim
    /\ delimiter = NoDelim
    /\ expected_arg = NoneInt
    /\ pc = "analyze"
    /\ Fresh

NextProgress ==
    \/ AnalyzeStream \/ StrictCheck \/ ReadHeaderStream
    \/ LoopExit \/ StepValid \/ StepSpliced \/ StepInvalidRebuffer
    \/ StepInvalidEOF

SpecProgress == InitProgress /\ [][NextProgress]_vars

\* C31: with a callback supplied, an iteration of process_csv_stream ends
\* with one call, on the counters as it leaves them, exactly when
\* valid_count + bad_count is then a multiple of the cadence; that sum
\* grows by 1 per iteration, so the k-th call is the one for the k-th
\* multiple and no multiple reached is left out; nothing is called outside
\* an iteration or without a callback.  What the run produces follows
\* from the input, the delimiter and expected_columns alone, with or
\* without the callback.
C31_ProgressCallback ==
    /\ [][Classifying =>
            /\ valid_count' + bad_count' = valid_count + bad_count + 1
            /\ progress' =
                  IF progress_callback
                     /\ (valid_count' + bad_count') % ProgressEvery = 0
                  THEN Append(progress,
                              <<valid_count', bad_count', total_count'>>)
                  ELSE progress]_vars
    /\ [][~Classifying => progress' = progress]_vars
    /\ [](~progress_callback => progress = <<>>)
    /\ [](progress_callback =>
            /\ Len(progress) = (valid_count + bad_count) \div ProgressEvery
            /\ \A k \in 1..Len(progress) :
                  progress[k][1] + progress[k][2] = k * ProgressEvery)
    /\ []C15_Determinism

\* A run with a callback has ended after two calls, the second with a
\* rejected line among the four classified.
C31_Witness ==
    /\ pc = "done"
    /\ progress_callback
    /\ Len(progress) = 2
    /\ progress[2][1] = 3 /\ progress[2][2] = 1 /\ progress[2][3] = 5
    /\ \E i \in 1..Len(outcomes) : outcomes[i].kind = "Invalid"

\* C32: the lookahead buffer holds at most one line, the one read last
\* and not yet classified; it is filled only by an iteration whose splice
\* failed, with the further line of that splice; the next iteration takes
\* that line out as its current line and classifies it, so that with a
\* line in the buffer no current line is read from the stream, and the
\* only line read is the further line of the iteration that has taken the
\* buffered one (a run that a write error ends classifies no more).
C32_Lookahead ==
    /\ [](buffered_line # None =>
            /\ pc = "loop"
            /\ Len(buffered_line) = 1
            /\ pos > hdr_lines
            /\ buffered_line[1] = input[pos])
    /\ [][buffered_line' # None =>
            /\ Classifying
            /\ ~Fits(Alone)
            /\ readline(pos_cur) # <<>>
            /\ ~Fits(Joined)
            /\ buffered_line' = <<readline(pos_cur)>>
            /\ pos' = pos_cur + 1]_vars
    /\ [][(buffered_line # None /\ pc' # "failed") =>
            /\ cur_line = buffered_line[1]
            /\ Len(outcomes') = Len(outcomes) + 1
            /\ outcomes'[Len(outcomes')].idx = pos
            /\ pos' \in {pos, pos + 1}
            /\ pos' = pos + 1 <=> (~Fits(Alone) /\ pos < Len(input))
            /\ buffered_line' \in {None, <<readline(pos)>>}]_vars
    /\ [][(Classifying /\ buffered_line = None /\ pc' # "failed") =>
            /\ cur_line = input[pos + 1]
            /\ outcomes'[Len(outcomes')].idx = pos + 1]_vars

\* Two splices in a row have failed: the line the first one buffered was
\* the current line of the second, whose further line is in the buffer.
C32_Witness ==
    /\ pc = "loop"
    /\ buffered_line # None
    /\ Len(outcomes) = 2
    /\ outcomes[1].kind = "Invalid" /\ outcomes[2].kind = "Invalid"
    /\ outcomes[2].idx = outcomes[1].idx + 1
    /\ pos = outcomes[2].idx + 1

\* C33: every data row of Clean, written for a valid line or for a splice,
\* has exactly expected_columns fields, as written and as read back; in
\* process_csv_stream that is the header row's field count too, so that
\* all records of Clean have the same number of fields.
C33_Rectangular ==
    HeaderRead =>
        /\ \A k \in 2..Len(clean) :
              /\ Len(WrittenRow(k)) = expected_columns
              /\ ReadBack(k).kind = "row"
              /\ Len(ReadBack(k).row) = expected_columns
        /\ entry = "process_csv_stream" =>
              /\ Len(header) = expected_columns
              /\ Len(ReadBack(1).row) = expected_columns

\* process_csv_stream has ended with a header of three fields, a valid
\* row and a repaired one in Clean.
C33_Witness ==
    /\ LoopEnded
    /\ entry = "process_csv_stream"
    /\ Len(header) = 3
    /\ Len(clean) >= 3
    /\ NumberOf({"Valid"}) >= 1
    /\ NumberOf({"SplicedValid"}) >= 1

\* C34: the outcomes are in the order of the physical lines; the k-th
\* data row of Clean is the row of the k-th valid or repaired line or
\* pair, so Clean follows the input's order; the line numbers of the
\* records of Bad increase strictly; the k-th entry of BadRaw is the text
\* of the line of the k-th record of Bad.
C34_OrderKept ==
    /\ \A i \in 1..(Len(outcomes) - 1) :
          outcomes[i].idx + outcomes[i].n <= outcomes[i + 1].idx
    /\ HeaderRead =>
          /\ Len(clean) = 1 + NumberOf(Good)
          /\ \A k \in 1..NumberOf(Good) :
                /\ clean[k + 1] = writerow(WrittenRow(k + 1), export_delimiter)
                /\ k > 1 => Nth(Good, k - 1).idx < Nth(Good, k).idx
    /\ \A k \in 2..(Len(bad) - 1) :
          bad[k].line_number < bad[k + 1].line_number
    /\ bad # <<>> =>
          /\ Len(bad_raw) = Len(bad) - 1
          /\ Len(bad_raw) = NumberOf({"Invalid"})
          /\ \A k \in 1..Len(bad_raw) :
                /\ bad_raw[k] = input[Nth({"Invalid"}, k).idx]
                /\ bad[k + 1].original_content = rstrip(bad_raw[k])
                /\ bad[k + 1].line_number =
                      Nth({"Invalid"}, k).idx - hdr_lines + 1

\* A run has ended with a rejected line, a valid one and a rejected one,
\* in this order.
C34_Witness ==
    /\ LoopEnded
    /\ Len(outcomes) = 3
    /\ outcomes[1].kind = "Invalid"
    /\ outcomes[2].kind = "Valid"
    /\ outcomes[3].kind = "Invalid"
    /\ Len(bad_raw) = 2 /\ bad_raw[1] # bad_raw[2]

\* C35: a data line that has exactly expected_columns fields when parsed
\* on its own is never the second line of a splice: the line after the
\* first line of a repaired pair is not valid alone.
C35_ValidLineKept ==
    HeaderRead =>
        \A i \in 1..Len(outcomes) :
            outcomes[i].kind = "SplicedValid"
                => ~Fits(AloneAt(outcomes[i].idx + 1))

\* What a classification loop makes of the input from line j on, given
\* the delimiter and expected_columns alone: the line is valid, or it and
\* the next one are a repaired pair, or it is rejected and the next one
\* is looked at on its own.
RECURSIVE Reference(_)
Reference(j) ==
    IF j > Len(input) THEN <<>>
    ELSE LET k == KindAt(j)
             n == IF k = "SplicedValid" THEN 2 ELSE 1
         IN  <<[kind |-> k, idx |-> j, n |-> n]>> \o Reference(j + n)

IsGood(o) == o.kind \in Good
IsInvalid(o) == o.kind = "Invalid"

\* The data rows of Clean, the entries of BadRaw and the line numbers and
\* contents of the records of Bad for a sequence of outcomes.
CleanOf(os) ==
    [k \in 1..Len(SelectSeq(os, IsGood)) |->
        writerow(_parse_row(TextOf(SelectSeq(os, IsGood)[k]), delimiter).row,
                 export_delimiter)]

BadRawOf(os) ==
    [k \in 1..Len(SelectSeq(os, IsInvalid)) |->
        input[SelectSeq(os, IsInvalid)[k].idx]]

BadOf(os) ==
    [k \in 1..Len(SelectSeq(os, IsInvalid)) |->
        <<SelectSeq(os, IsInvalid)[k].idx - hdr_lines + 1,
          rstrip(input[SelectSeq(os, IsInvalid)[k].idx])>>]

\* C36: a run of either loop that has ended has produced the outcomes,
\* the data rows of Clean, the line numbers and contents of the records
\* of Bad, the text of BadRaw and the valid and bad counts that the
\* input lines, the delimiter and expected_columns determine by the one
\* reference above, in which the function run has no part: on the same
\* lines, delimiter and expected_columns process_csv_stream and
\* process_csv_streaming agree in all of them.
C36_LoopsAgree ==
    LoopEnded =>
        /\ outcomes = Reference(hdr_lines + 1)
        /\ Tail(clean) = CleanOf(Reference(hdr_lines + 1))
        /\ bad_raw = BadRawOf(Reference(hdr_lines + 1))
        /\ [k \in 1..(Len(bad) - 1) |->
               <<bad[k + 1].line_number, bad[k + 1].original_content>>]
              = BadOf(Reference(hdr_lines + 1))
        /\ valid_count = Len(CleanOf(Reference(hdr_lines + 1)))
        /\ bad_count = Len(BadRawOf(Reference(hdr_lines + 1)))

\* process_csv_stream has ended a run on lines ended by CR LF with a
\* rejected line and then a repaired pair.
C36_Witness ==
    /\ LoopEnded
    /\ entry = "process_csv_stream"
    /\ Len(outcomes) = 2
    /\ outcomes[1].kind = "Invalid"
    /\ outcomes[2].kind = "SplicedValid"
    /\ input[1][Len(input[1]) - 1] = CR

\* ------------------------------------------------------------------------
\* streaming_csv_parser.detect_encoding and
\* app_streamlit.detect_encoding_and_reset, for every way opening, reading
\* and chardet.detect can go.
\* ------------------------------------------------------------------------
\* chardet.detect raised
GuessRaises == <<"!">>

\* result['encoding']: None, names in several spellings, or an exception
Guesses ==
    { NoEncoding, GuessRaises, ascii,
      <<"A", "S", "C", "I", "I">>,
      <<"A", "s", "c", "i", "i">>,
      UTF8,
      <<"U", "T", "F", "-", "8", "-", "S", "I", "G">>,
      <<"U", "T", "F", "-", "1", "6">>,
      <<"I", "S", "O", "-", "8", "8", "5", "9", "-", "1">>,
      <<"W", "i", "n", "d", "o", "w", "s", "-", "1", "2", "5", "1">> }

\* A variant of lower that changes nothing.
lower_Same(c) == c

\* str.lower() on one character of an encoding's name
lower(c) ==
    CASE c = "A" -> "a" [] c = "C" -> "c" [] c = "F" -> "f"
      [] c = "G" -> "g" [] c = "I" -> "i" [] c = "O" -> "o"
      [] c = "S" -> "s" [] c = "T" -> "t" [] c = "U" -> "u"
      [] c = "W" -> "w" [] OTHER -> c

Lower(name) == [i \in 1..Len(name) |-> lower(name[i])]

\* result['encoding'] or 'utf-8', then 'ascii' in any case gives 'utf-8'
NoAscii(guess) ==
    IF guess = NoEncoding THEN UTF8
    ELSE IF Lower(guess) = ascii THEN UTF8
    ELSE guess

\* detect_encoding, lines 45-60: everything is inside try, and except
\* Exception returns 'utf-8' after a warning.
detect_encoding(d) ==
    IF ~d.opens \/ ~d.reads \/ d.guess = GuessRaises
    THEN [kind |-> "ok", encoding |-> UTF8, logged |-> "warning"]
    ELSE [kind |-> "ok", encoding |-> NoAscii(d.guess), logged |-> "info"]

\* detect_encoding_and_reset, lines 129-140: no handler; a text stream
\* gives 'utf-8' without a guess.
detect_encoding_and_reset(d) ==
    IF ~d.reads THEN Raised("OSError")
    ELSE IF d.kind = "text"
    THEN [kind |-> "ok", encoding |-> UTF8, logged |-> "none"]
    ELSE IF d.guess = GuessRaises THEN Raised("Exception")
    ELSE [kind |-> "ok", encoding |-> NoAscii(d.guess), logged |-> "none"]

\* main, line 408: encoding = args.encoding or detect_encoding(...)
DetectEncoding ==
    /\ pc = "detect" /\ entry = "main"
    /\ encoding' = detect_encoding(detected).encoding
    /\ log' = Append(log, detect_encoding(detected).logged)
    /\ pc' = "analyze"
    /\ UNCHANGED <<entry, input, provided_delimiter, sniffed,
                   export_delimiter, progress_callback, detected, stats,
                   delimiter, expected_arg, expected_columns, header,
                   loopvars, counters, sinks, stdout, progress, error,
                   outcomes, hdr_lines>>

\* process_csv_stream, line 266:
\* encoding = input_encoding or detect_encoding_and_reset(bin_file)
DetectEncodingAndReset ==
    /\ pc = "detect" /\ entry = "process_csv_stream"
    /\ LET r == detect_encoding_and_reset(detected) IN
       IF r.kind = "error"
       THEN /\ error' = r.error /\ pc' = "failed" /\ encoding' = encoding
       ELSE /\ encoding' = r.encoding /\ pc' = "analyze" /\ error' = error
    /\ UNCHANGED <<entry, input, provided_delimiter, sniffed,
                   export_delimiter, progress_callback, detected, stats,
                   delimiter, expected_arg, expected_columns, header,
                   loopvars, counters, sinks, log, stdout, progress,
                   outcomes, hdr_lines>>

InitDetect ==
    /\ input \in { <<>>, << <<"a", "|", "b", LF>>, <<"1", "|", "2", LF>> >> }
    /\ export_delimiter \in ExportDelims
    /\ progress_callback = FALSE
    /\ \/ /\ entry = "main"
          /\ detected \in [opens : BOOLEAN, reads : BOOLEAN,
                           kind : {"bytes"}, guess : Guesses]
       \/ /\ entry = "process_csv_stream"
          /\ detected \in [opens : {TRUE}, reads : BOOLEAN,
                           kind : {"bytes", "text"}, guess : Guesses]
    /\ encoding = NoEncoding
    /\ provided_delimiter = NoDelim
    /\ sniffed = NoDelim
    /\ delimiter = NoDelim
    /\ expected_arg = NoneInt
    /\ pc = "detect"
    /\ Fresh

NextDetect == DetectEncoding \/ DetectEncodingAndReset

SpecDetect == InitDetect /\ [][NextDetect]_vars

\* The five letters of 'ascii', each in either case
AnyCaseAscii(name) ==
    /\ Len(name) = 5
    /\ name[1] \in {"a", "A"} /\ name[2] \in {"s", "S"}
    /\ name[3] \in {"c", "C"} /\ name[4] \in {"i", "I"}
    /\ name[5] \in {"i", "I"}

\* C37: detect_encoding always returns, and never a name that is 'ascii'
\* in any letter case: 'utf-8' when opening, reading or guessing fails,
\* when there is no guess and when the guess is 'ascii' in any case, the
\* guess itself otherwise.  detect_encoding_and_reset, when it returns,
\* follows the same rule for the guess.
C37_DetectEncoding ==
    /\ (entry = "main" /\ pc # "detect") =>
          /\ pc = "analyze" /\ error = NoError
          /\ ~AnyCaseAscii(encoding)
          /\ encoding # NoEncoding
          /\ (~detected.opens \/ ~detected.reads
              \/ detected.guess \in {GuessRaises, NoEncoding}
              \/ AnyCaseAscii(detected.guess)) => encoding = UTF8
          /\ (detected.opens /\ detected.reads
              /\ detected.guess \notin {GuessRaises, NoEncoding}
              /\ ~AnyCaseAscii(detected.guess)) => encoding = detected.guess
    /\ (entry = "process_csv_stream" /\ pc = "analyze") =>
          /\ ~AnyCaseAscii(encoding)
          /\ encoding # NoEncoding
          /\ (detected.guess = NoEncoding \/ AnyCaseAscii(detected.guess))
                => encoding = UTF8

\* detect_encoding has returned 'utf-8' for the guess 'ASCII'.
C37_Witness ==
    /\ entry = "main" /\ pc = "analyze"
    /\ detected.opens /\ detected.reads
    /\ detected.guess = <<"A", "S", "C", "I", "I">>
    /\ encoding = UTF8
    /\ log = <<"info">>

====
